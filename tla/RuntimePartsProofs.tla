------------------------- MODULE RuntimePartsProofs -------------------------
(***************************************************************************)
(* Proofs about the parts of the runtimes that MCRuntimeParts composes:    *)
(* the lineage of authorization, the budgets and the worker homes, and     *)
(* what holds of all of them with those of OperationPartsProofs, for any   *)
(* numbers of handlers and of crashes.                                     *)
(***************************************************************************)
EXTENDS MCRuntimeParts, OperationPartsProofs, FiniteSetTheorems

-----------------------------------------------------------------------------
(* The lineage of authorization (AuthorizationLineage).                    *)

Calls == [op : 0 .. 6, pc : PCs, goal : 0 .. Index, mine : BOOLEAN]

LEMMA IdleIsCall == Idle \in Calls
BY DEF Idle, Calls, PCs, Index

\* A call that ends, or goes on to where it may be.
LEMMA Ending ==
    ASSUME LineageTypeOK, NEW w \in Callers, End(w)
    PROVE  /\ call' \in [Callers -> Calls] /\ call'[w] = Idle
           /\ \A v \in Callers : v # w => call'[v] = call[v]
BY IdleIsCall DEF LineageTypeOK, End, Calls

LEMMA Going ==
    ASSUME LineageTypeOK, NEW w \in Callers, NEW pc \in PCs, Goto(w, pc)
    PROVE  /\ call' \in [Callers -> Calls] /\ call'[w] = [call[w] EXCEPT !.pc = pc]
           /\ \A v \in Callers : v # w => call'[v] = call[v]
<1>1. call \in [Callers -> Calls]
  BY DEF LineageTypeOK, Calls
<1>2. [call[w] EXCEPT !.pc = pc] \in Calls
  BY <1>1 DEF Calls
<1>3. QED
  BY <1>1, <1>2 DEF Goto

LEMMA Writing ==
    ASSUME LineageTypeOK, NEW w \in Callers, NEW goal \in Receipts, NEW mine \in BOOLEAN,
           WriteTo(w, goal, mine)
    PROVE  /\ call' \in [Callers -> Calls]
           /\ call'[w].op = call[w].op /\ call'[w].pc = "write"
           /\ call'[w].goal = goal /\ call'[w].mine = mine
           /\ \A v \in Callers : v # w => call'[v] = call[v]
<1>1. call \in [Callers -> Calls] /\ call[w] \in Calls
  BY DEF LineageTypeOK, Calls
<1>2. "write" \in PCs /\ goal \in 0 .. Index
  BY DEF PCs, Receipts, Index
<1> DEFINE next == [call[w] EXCEPT !.pc = "write", !.goal = goal, !.mine = mine]
<1>3. next \in Calls
  BY <1>1, <1>2 DEF Calls
<1>4. /\ next.op = call[w].op /\ next.pc = "write"
      /\ next.goal = goal /\ next.mine = mine
  BY <1>1 DEF Calls
<1>5. call' = [call EXCEPT ![w] = next]
  BY <1>1 DEF WriteTo
<1> HIDE DEF next
<1>6. call'[w] = next
  BY <1>1, <1>5
<1>7. QED
  BY <1>1, <1>3, <1>4, <1>5, <1>6

\* What a step of w leaves to the other calls: the claims on record stay.
LEMMA OthersCalled ==
    ASSUME \A v \in Callers : Called(v), NEW w \in Callers,
           \A v \in Callers : v # w => call'[v] = call[v],
           asked \in Nat, asked' \in Nat, asked' >= asked, LineageTypeOK,
           claims[ReplayGuard] # NoCaller => claims'[ReplayGuard] = claims[ReplayGuard],
           Called(w)'
    PROVE  \A v \in Callers : Called(v)'
<1>1. SUFFICES ASSUME NEW v \in Callers, v # w PROVE Called(v)'
  OBVIOUS
<1>2. call'[v] = call[v] /\ Called(v)
  BY <1>1
<1>3. call[v].op <= asked' + 1
  <2>1. call[v].op \in Nat
    BY DEF LineageTypeOK
  <2>2. QED
    BY <1>2, <2>1 DEF Called
<1>4. call[v].mine => claims'[ReplayGuard] = v
  BY <1>2, LineageAssumption DEF Called
<1>5. QED
  BY <1>2, <1>3, <1>4 DEF Called, At

\* The step of a call: what is said of the others follows.
LEMMA CallStep ==
    ASSUME LineageInv, NEW w \in Callers, LineageTypeOK', asked' >= asked,
           \A v \in Callers : v # w => call'[v] = call[v],
           claims[ReplayGuard] # NoCaller => claims'[ReplayGuard] = claims[ReplayGuard],
           Called(w)', ChainWhole', GuardHeld'
    PROVE  LineageInv'
<1>1. asked \in Nat /\ asked' \in Nat
  BY DEF LineageInv, LineageTypeOK
<1>2. \A v \in Callers : Called(v)'
  BY <1>1, OthersCalled DEF LineageInv
<1>3. QED
  BY <1>2 DEF LineageInv

\* Nothing of the guard is touched by a call that is not about to run the case.
LEMMA Unguarded ==
    ASSUME GuardHeld, NEW w \in Callers, call'[w].pc # "run",
           \A v \in Callers : v # w => call'[v] = call[v],
           UNCHANGED <<asked, claimants, effects, consumed>>,
           claimants # {} => claims'[ReplayGuard] = claims[ReplayGuard],
           \A i \in {AuthorizePorts, ReplayGuard} : files[i] # NoCaller => files'[i] = files[i],
           leased' => leased \/ files'[AuthorizePorts] # NoCaller
    PROVE  GuardHeld'
<1>1. \A v \in Callers : At(v, "run")' => v # w /\ At(v, "run")
  BY DEF At
<1>2. claimants' \subseteq {claims'[ReplayGuard]} \ {NoCaller}
  BY DEF GuardHeld
<1>3. files[ReplayGuard] \in claimants => files'[ReplayGuard] \in claimants'
  BY DEF GuardHeld
<1>4. leased' => files'[AuthorizePorts] # NoCaller
  BY DEF GuardHeld
<1>5. asked' >= ReplayGuard => files'[ReplayGuard] \in claimants'
  BY <1>3 DEF GuardHeld
<1>6. effects' <= 1 /\ (effects' = 1 => consumed' /\ files'[ReplayGuard] \in claimants')
  BY <1>3 DEF GuardHeld
<1>7. \A v \in Callers : At(v, "run")' =>
          /\ consumed' /\ effects' = 0
          /\ \A u \in Callers : At(u, "run")' => u = v
  BY <1>1 DEF GuardHeld
<1>8. QED
  BY <1>2, <1>4, <1>5, <1>6, <1>7 DEF GuardHeld

LEMMA AskInv ==
    ASSUME LineageInv, NEW w \in Callers, NEW op \in 1 .. 6, Ask(w, op)
    PROVE  LineageInv'
<1>1. /\ LineageTypeOK /\ call[w] = Idle /\ op <= asked + 1
      /\ ChainWhole /\ GuardHeld
      /\ UNCHANGED <<claims, completed, leased, stored, files, permit, consumed, effects,
                     asked, claimants, breaks>>
  BY DEF LineageInv, Called, Ask, HostRecords, Lineage, Effect, Answers
<1> DEFINE pc == IF op = RunCase THEN "authorize" ELSE IF op = VerifyGrant THEN "write" ELSE "record"
           goal == IF op = VerifyGrant THEN op ELSE 0
           next == [call[w] EXCEPT !.op = op, !.pc = pc, !.goal = goal]
<1>2. call \in [Callers -> Calls] /\ call[w] \in Calls
  BY <1>1 DEF LineageTypeOK, Calls
<1>3. next \in Calls
  <2>1. pc \in PCs /\ goal \in 0 .. Index /\ op \in 0 .. 6
    BY DEF PCs, Index, VerifyGrant
  <2>2. QED
    BY <1>2, <2>1 DEF Calls
<1>4. /\ call'[w].op = op /\ call'[w].pc = pc /\ call'[w].goal = goal /\ ~call'[w].mine
      /\ call' \in [Callers -> Calls]
      /\ \A v \in Callers : v # w => call'[v] = call[v]
  <2>1. next.op = op /\ next.pc = pc /\ next.goal = goal
    BY <1>2 DEF Calls
  <2>2. next.mine = call[w].mine /\ ~call[w].mine
    BY <1>1, <1>2 DEF Calls, Idle
  <2>3. call' = [call EXCEPT ![w] = next]
    BY <1>2 DEF Ask
  <2> HIDE DEF next
  <2>4. call'[w] = next
    BY <1>2, <2>3
  <2>5. QED
    BY <1>2, <1>3, <2>1, <2>2, <2>3, <2>4
<1>5. LineageTypeOK'
  BY <1>1, <1>4 DEF LineageTypeOK, Calls
<1>6. Called(w)'
  <2>1. op \in 1 .. 6 /\ asked' = asked
    BY <1>1
  <2>2. QED
    BY <1>1, <1>4, <2>1 DEF Called, At, RunCase, VerifyGrant, AuthorizePorts,
         ClaimPreauthorization,
                         ReplayGuard, CompleteReplay
<1>7. ChainWhole'
  BY <1>1 DEF ChainWhole, Named
<1>8. GuardHeld'
  BY <1>1, <1>4, Unguarded
<1>9. QED
  BY <1>1, <1>4, <1>5, <1>6, <1>7, <1>8, CallStep DEF LineageTypeOK

\* A claim that was not on record is put there.
LEMMA ClaimKeepsChain ==
    ASSUME LineageTypeOK, ChainWhole, NEW k \in 1 .. 4, NEW c \in Callers,
           claims' = IF claims[k] = NoCaller THEN [claims EXCEPT ![k] = c] ELSE claims,
           UNCHANGED <<stored, files>>, completed => completed'
    PROVE  /\ claims' \in [1 .. 4 -> Callers \union {NoCaller}]
           /\ claims[ReplayGuard] # NoCaller => claims'[ReplayGuard] = claims[ReplayGuard]
           /\ claims[k] = NoCaller => claims'[k] = c
           /\ ChainWhole'
<1>1. claims' \in [1 .. 4 -> Callers \union {NoCaller}]
  BY DEF LineageTypeOK
<1>2. \A j \in 1 .. 4 : claims[j] # NoCaller => claims'[j] = claims[j]
  BY DEF LineageTypeOK
<1>3. \A i \in Receipts : Named(i) # NoCaller => Named(i)' = Named(i)
  BY <1>2 DEF Named, Receipts, Index
<1>4. \A i \in Receipts : stored[i] # NoCaller => stored[i] = Named(i)'
  BY <1>3 DEF ChainWhole
<1>5. ChainWhole'
  BY <1>4 DEF ChainWhole
<1>6. QED
  BY <1>1, <1>2, <1>5 DEF ReplayGuard, LineageTypeOK

LEMMA ClaimRecordInv ==
    ASSUME LineageInv, NEW w \in Callers, ClaimRecord(w)
    PROVE  LineageInv'
<1> DEFINE k == call[w].op
<1>1. /\ LineageTypeOK /\ Called(w) /\ ChainWhole /\ GuardHeld /\ At(w, "record")
      /\ k \in {AuthorizePorts, ClaimPreauthorization}
      /\ UNCHANGED <<completed, leased, stored, files, permit, consumed, effects,
                     asked, claimants, breaks>>
  BY DEF LineageInv, ClaimRecord, Lineage, Effect, Answers
<1>2. k \in 1 .. 4 /\ k # ReplayGuard /\ k \in Receipts
  BY <1>1 DEF AuthorizePorts, ClaimPreauthorization, ReplayGuard, Receipts, Index
<1>3. /\ claims' \in [1 .. 4 -> Callers \union {NoCaller}] /\ ChainWhole'
      /\ claims'[ReplayGuard] = claims[ReplayGuard]
  <2>1. claims' = IF claims[k] = NoCaller THEN [claims EXCEPT ![k] = w] ELSE claims
    BY DEF ClaimRecord
  <2>2. claims' \in [1 .. 4 -> Callers \union {NoCaller}] /\ ChainWhole'
    BY <1>1, <1>2, <2>1, ClaimKeepsChain
  <2>3. claims'[ReplayGuard] = claims[ReplayGuard]
    BY <1>1, <1>2, <2>1 DEF LineageTypeOK, ReplayGuard
  <2>4. QED
    BY <2>2, <2>3
<1>4. /\ call' \in [Callers -> Calls] /\ call'[w].op = k /\ call'[w].pc = "write"
      /\ call'[w].goal = k /\ call'[w].mine = FALSE
      /\ \A v \in Callers : v # w => call'[v] = call[v]
  BY <1>1, <1>2, Writing DEF ClaimRecord
<1>5. LineageTypeOK'
  BY <1>1, <1>3, <1>4 DEF LineageTypeOK, Calls
<1>6. Called(w)'
  BY <1>1, <1>2, <1>4 DEF Called, At, AuthorizePorts, ClaimPreauthorization, RunCase,
                          CompleteReplay
<1>7. GuardHeld'
  BY <1>1, <1>3, <1>4, Unguarded
<1>8. QED
  BY <1>1, <1>3, <1>4, <1>5, <1>6, <1>7, CallStep DEF LineageTypeOK

LEMMA GuardRecordInv ==
    ASSUME LineageInv, NEW w \in Callers, GuardRecord(w)
    PROVE  LineageInv'
<1> DEFINE goal == IF completed THEN Index ELSE ReplayGuard
           mine == claims[ReplayGuard] = NoCaller
<1>1. /\ LineageTypeOK /\ Called(w) /\ ChainWhole /\ GuardHeld /\ At(w, "record")
      /\ call[w].op = ReplayGuard /\ WriteTo(w, goal, mine)
      /\ claims' = IF mine THEN [claims EXCEPT ![ReplayGuard] = w] ELSE claims
      /\ UNCHANGED <<completed, leased, stored, files, permit, consumed, effects,
                     asked, claimants, breaks>>
  BY DEF LineageInv, GuardRecord, Lineage, Effect, Answers, ReplayGuard
<1>2. ReplayGuard \in 1 .. 4 /\ goal \in Receipts /\ mine \in BOOLEAN /\ goal >= ReplayGuard
  BY DEF ReplayGuard, Receipts, Index
<1>3. /\ claims' \in [1 .. 4 -> Callers \union {NoCaller}] /\ ChainWhole'
      /\ claims[ReplayGuard] # NoCaller => claims'[ReplayGuard] = claims[ReplayGuard]
      /\ mine => claims'[ReplayGuard] = w
  BY <1>1, <1>2, ClaimKeepsChain
<1> HIDE DEF goal, mine
<1>4. /\ call' \in [Callers -> Calls] /\ call'[w].op = ReplayGuard /\ call'[w].pc = "write"
      /\ call'[w].goal = goal /\ call'[w].mine = mine
      /\ \A v \in Callers : v # w => call'[v] = call[v]
  BY <1>1, <1>2, Writing
<1>5. LineageTypeOK'
  BY <1>1, <1>3, <1>4 DEF LineageTypeOK, Calls
<1>6. Called(w)'
  BY <1>1, <1>2, <1>3, <1>4 DEF Called, At, ReplayGuard, RunCase, CompleteReplay
<1>7. claimants # {} => claims'[ReplayGuard] = claims[ReplayGuard]
  BY <1>1, <1>3 DEF GuardHeld
<1>8. GuardHeld'
  BY <1>1, <1>4, <1>7, Unguarded
<1>9. QED
  BY <1>1, <1>3, <1>4, <1>5, <1>6, <1>8, CallStep DEF LineageTypeOK

\* A call that ends in the middle.
LEMMA EndedIsCalled ==
    ASSUME NEW w \in Callers, call'[w] = Idle, asked' \in Nat
    PROVE  Called(w)' /\ call'[w].pc # "run"
<1>1. call'[w].pc = "idle" /\ ~call'[w].mine
  BY DEF Idle
<1>2. call'[w].op <= asked' + 1
  <2>1. call'[w].op = 0
    BY DEF Idle
  <2>2. \A n \in Nat : 0 <= n + 1
    OBVIOUS
  <2>3. QED
    BY <2>1, <2>2, Zenon
<1>3. call'[w].pc # "run" /\ call'[w].pc \notin {"authorize", "check", "consume", "run"}
  <2>1. call'[w].pc = "idle"
    BY <1>1
  <2>2. QED
    BY <2>1
<1>4. QED
  BY <1>1, <1>2, <1>3, Zenon DEF Called, At

LEMMA LookUpClaimInv ==
    ASSUME LineageInv, NEW w \in Callers, LookUpClaim(w)
    PROVE  LineageInv'
<1>1. /\ LineageTypeOK /\ Called(w) /\ ChainWhole /\ GuardHeld /\ At(w, "record")
      /\ call[w].op = CompleteReplay /\ asked \in Nat
      /\ UNCHANGED <<claims, completed, leased, stored, files, permit, consumed, effects,
                     asked, claimants, breaks>>
  BY DEF LineageInv, LookUpClaim, HostRecords, Lineage, Effect, Answers, LineageTypeOK
<1>2. /\ call' \in [Callers -> Calls] /\ Called(w)' /\ call'[w].pc # "run"
      /\ \A v \in Callers : v # w => call'[v] = call[v]
  <2>1. CASE End(w)
    BY <1>1, <2>1, Ending, EndedIsCalled
  <2>2. CASE Goto(w, "complete")
    <3>1. "complete" \in PCs
      BY DEF PCs
    <3>2. /\ call' \in [Callers -> Calls] /\ call'[w] = [call[w] EXCEPT !.pc = "complete"]
          /\ \A v \in Callers : v # w => call'[v] = call[v]
      BY <1>1, <2>2, <3>1, Going
    <3>3. /\ call'[w].pc = "complete" /\ call'[w].op = call[w].op
          /\ call'[w].mine = call[w].mine
      BY <1>1, <3>2 DEF LineageTypeOK
    <3>4. Called(w)'
      BY <1>1, <3>3 DEF Called, At
    <3>5. QED
      BY <3>2, <3>3, <3>4
  <2>3. QED
    BY <2>1, <2>2 DEF LookUpClaim
<1>3. LineageTypeOK'
  BY <1>1, <1>2 DEF LineageTypeOK, Calls
<1>4. ChainWhole'
  BY <1>1 DEF ChainWhole, Named
<1>5. GuardHeld'
  BY <1>1, <1>2, Unguarded
<1>6. QED
  BY <1>1, <1>2, <1>3, <1>4, <1>5, CallStep

LEMMA CompleteRecordInv ==
    ASSUME LineageInv, NEW w \in Callers, CompleteRecord(w)
    PROVE  LineageInv'
<1>1. /\ LineageTypeOK /\ Called(w) /\ ChainWhole /\ GuardHeld /\ At(w, "complete")
      /\ completed' /\ WriteTo(w, Index, FALSE) /\ asked \in Nat
      /\ UNCHANGED <<claims, leased, stored, files, permit, consumed, effects,
                     asked, claimants, breaks>>
  <2>1. At(w, "complete") /\ completed' /\ WriteTo(w, Index, FALSE)
    BY DEF CompleteRecord
  <2>2. LineageTypeOK /\ Called(w) /\ ChainWhole /\ GuardHeld
    BY DEF LineageInv
  <2>3. asked \in Nat
    BY <2>2 DEF LineageTypeOK
  <2>4. UNCHANGED <<claims, leased, stored, files, permit, consumed, effects,
                    asked, claimants, breaks>>
    BY DEF CompleteRecord, Lineage, Effect, Answers
  <2>5. QED
    BY <2>1, <2>2, <2>3, <2>4
<1>2. Index \in Receipts /\ call[w].op = CompleteReplay
  BY <1>1 DEF Index, Receipts, Called
<1>3. /\ call' \in [Callers -> Calls] /\ call'[w].op = call[w].op /\ call'[w].pc = "write"
      /\ call'[w].goal = Index /\ call'[w].mine = FALSE
      /\ \A v \in Callers : v # w => call'[v] = call[v]
  BY <1>1, <1>2, Writing
<1>4. LineageTypeOK'
  BY <1>1, <1>3 DEF LineageTypeOK, Calls
<1>5. Called(w)'
  <2>1. call[w].op <= asked + 1 /\ call'[w].op = 6
    BY <1>1, <1>2, <1>3 DEF Called, CompleteReplay
  <2>2. call'[w].op # RunCase /\ Index = 6 /\ CompleteReplay = 6
    BY <2>1 DEF RunCase, Index, CompleteReplay
  <2>3. QED
    BY <1>1, <1>2, <1>3, <2>1, <2>2 DEF Called, At
<1>6. ChainWhole'
  BY <1>1 DEF ChainWhole, Named
<1>7. GuardHeld'
  BY <1>1, <1>3, Unguarded
<1>8. QED
  BY <1>1, <1>3, <1>4, <1>5, <1>6, <1>7, CallStep

LEMMA VerifyRecordInv ==
    ASSUME LineageInv, NEW w \in Callers, VerifyRecord(w)
    PROVE  LineageInv'
<1>1. /\ LineageTypeOK /\ Called(w) /\ ChainWhole /\ GuardHeld /\ At(w, "write") /\ asked \in Nat
      /\ claims[VerifyGrant] = NoCaller
      /\ claims' = [claims EXCEPT ![VerifyGrant] = Verified]
      /\ UNCHANGED <<completed, leased, stored, files, permit, consumed, effects,
                     asked, claimants, call, breaks>>
  BY DEF LineageInv, VerifyRecord, Due, Lineage, Effect, Answers, LineageTypeOK
<1>2. VerifyGrant \in 1 .. 4 /\ Verified \in Callers
  BY DEF VerifyGrant, Verified
<1>3. /\ claims' \in [1 .. 4 -> Callers \union {NoCaller}] /\ ChainWhole'
      /\ claims'[ReplayGuard] = claims[ReplayGuard]
  <2>1. claims' = IF claims[VerifyGrant] = NoCaller THEN [claims EXCEPT ![VerifyGrant] = Verified]
                  ELSE claims
    BY <1>1
  <2>2. claims' \in [1 .. 4 -> Callers \union {NoCaller}] /\ ChainWhole'
    BY <1>1, <1>2, <2>1, ClaimKeepsChain
  <2>3. claims'[ReplayGuard] = claims[ReplayGuard]
    BY <1>1 DEF LineageTypeOK, ReplayGuard, VerifyGrant
  <2>4. QED
    BY <2>2, <2>3
<1>4. LineageTypeOK'
  BY <1>1, <1>3 DEF LineageTypeOK
<1>5. Called(w)'
  BY <1>1, <1>3 DEF Called, At
<1>6. GuardHeld'
  BY <1>1, <1>3, Unguarded DEF At
<1>7. QED
  BY <1>1, <1>3, <1>4, <1>5, <1>6, CallStep

LEMMA StoreInv ==
    ASSUME LineageInv, NEW w \in Callers, NEW i \in Receipts, Store(w, i)
    PROVE  LineageInv'
<1> DEFINE ok == Available(i) /\ Fits(i, Named(i))
<1>1. /\ LineageTypeOK /\ Called(w) /\ ChainWhole /\ GuardHeld /\ Due(w, i) /\ asked \in Nat
      /\ ~(ok /\ stored[i] = Named(i))
      /\ stored' = IF ok THEN [stored EXCEPT ![i] = Named(i)] ELSE stored
      /\ IF ok THEN UNCHANGED call ELSE End(w)
      /\ UNCHANGED <<claims, completed, leased, files, permit, consumed, effects,
                     asked, claimants, breaks>>
  BY DEF LineageInv, Store, HostRecords, Effect, Answers, LineageTypeOK
<1>2. Named(i) \in Callers \union {NoCaller}
  BY <1>1 DEF LineageTypeOK, Named, Receipts, Index
<1>3. /\ call' \in [Callers -> Calls] /\ Called(w)' /\ call'[w].pc # "run"
      /\ \A v \in Callers : v # w => call'[v] = call[v]
  <2>1. CASE UNCHANGED call
    BY <1>1, <2>1 DEF LineageTypeOK, Calls, Called, At, Due
  <2>2. CASE End(w)
    BY <1>1, <2>2, Ending, EndedIsCalled
  <2>3. QED
    BY <1>1, <2>1, <2>2
<1>4. LineageTypeOK'
  BY <1>1, <1>2, <1>3 DEF LineageTypeOK, Calls
<1>5. ChainWhole'
  <2>1. CASE ok
    <3>1. /\ stored[i] = NoCaller /\ files[i] = NoCaller /\ stored'[i] = Named(i)
          /\ (i >= Completion => completed)
          /\ \A j \in 1 .. (i - 1) : files[j] # NoCaller
          /\ \A j \in Receipts : j # i => stored'[j] = stored[j]
      BY <1>1, <2>1 DEF Fits, Due, Available, LineageTypeOK, Completion, Index, Receipts
    <3>2. QED
      BY <1>1, <3>1 DEF ChainWhole, Named
  <2>2. CASE ~ok
    BY <1>1, <2>2 DEF ChainWhole, Named
  <2>3. QED
    BY <2>1, <2>2
<1>6. GuardHeld'
  BY <1>1, <1>3, Unguarded
<1>7. QED
  BY <1>1, <1>3, <1>4, <1>5, <1>6, CallStep

LEMMA MaterializeInv ==
    ASSUME LineageInv, NEW w \in Callers, NEW i \in Receipts, Materialize(w, i)
    PROVE  LineageInv'
<1>1. /\ LineageTypeOK /\ Called(w) /\ ChainWhole /\ GuardHeld /\ Due(w, i) /\ asked \in Nat
      /\ stored[i] # NoCaller /\ files' = [files EXCEPT ![i] = stored[i]]
      /\ UNCHANGED <<claims, completed, leased, stored, permit, consumed, effects,
                     asked, claimants, call, breaks>>
  BY DEF LineageInv, Materialize, HostRecords, Effect, Answers, LineageTypeOK
<1>2. /\ files[i] = NoCaller /\ files'[i] = stored[i] /\ At(w, "write")
      /\ \A j \in Receipts : j # i => files'[j] = files[j]
  BY <1>1 DEF Due, LineageTypeOK
<1>3. \A j \in Receipts : files[j] # NoCaller => files'[j] = files[j]
  BY <1>2
<1>4. LineageTypeOK'
  BY <1>1 DEF LineageTypeOK
<1>5. ChainWhole'
  <2>1. \A j \in Receipts : files'[j] \in {NoCaller, stored[j]}
    BY <1>1, <1>2 DEF ChainWhole
  <2>2. \A j, h \in Receipts : stored[j] # NoCaller /\ h \in 1 .. (j - 1) => files'[h] # NoCaller
    BY <1>1, <1>3 DEF ChainWhole
  <2>3. \A j \in Receipts : 1 .. (j - 1) \subseteq Receipts
    BY DEF Receipts, Index
  <2>4. QED
    BY <1>1, <2>1, <2>2, <2>3 DEF ChainWhole, Named
<1>6. Called(w)'
  BY <1>1 DEF Called, At
<1>7. AuthorizePorts \in Receipts /\ ReplayGuard \in Receipts
  BY DEF AuthorizePorts, ReplayGuard, Receipts, Index
<1>8. GuardHeld'
  BY <1>1, <1>2, <1>3, <1>7, Unguarded DEF At
<1>9. QED
  BY <1>1, <1>4, <1>5, <1>6, <1>8, CallStep

LEMMA LeaseInv ==
    ASSUME LineageInv, NEW w \in Callers, Lease(w)
    PROVE  LineageInv'
<1>1. /\ LineageTypeOK /\ Called(w) /\ ChainWhole /\ GuardHeld /\ Written(w) /\ asked \in Nat
      /\ call[w].op = AuthorizePorts /\ leased' = TRUE /\ Goto(w, "answer")
      /\ UNCHANGED <<claims, completed, stored, files, permit, consumed, effects,
                     asked, claimants, breaks>>
  BY DEF LineageInv, Lease, Lineage, Effect, Answers, LineageTypeOK
<1>2. "answer" \in PCs
  BY DEF PCs
<1>3. /\ call' \in [Callers -> Calls] /\ call'[w] = [call[w] EXCEPT !.pc = "answer"]
      /\ \A v \in Callers : v # w => call'[v] = call[v]
  BY <1>1, <1>2, Going
<1>4. /\ call'[w].pc = "answer" /\ call'[w].op = call[w].op /\ call'[w].mine = call[w].mine
      /\ call[w].goal \in 0 .. Index
  BY <1>1, <1>3 DEF LineageTypeOK
<1>5. LineageTypeOK'
  BY <1>1, <1>3 DEF LineageTypeOK, Calls
<1>6. Called(w)'
  BY <1>1, <1>4 DEF Called, At, AuthorizePorts, ReplayGuard
<1>7. files[AuthorizePorts] # NoCaller
  <2>1. call[w].goal >= 1
    BY <1>1 DEF Called, Written, AuthorizePorts, CompleteReplay
  <2>2. QED
    BY <1>1, <1>4, <2>1 DEF Written, AuthorizePorts, Index
<1>8. ChainWhole'
  BY <1>1 DEF ChainWhole, Named
<1>9. GuardHeld'
  BY <1>1, <1>3, <1>4, <1>7, Unguarded
<1>10. QED
  BY <1>1, <1>3, <1>5, <1>6, <1>8, <1>9, CallStep

\* A call that is in the middle of what it was called for.
LEMMA Passing ==
    ASSUME LineageTypeOK, NEW w \in Callers, NEW pc \in {"answer", "check", "consume", "run"}, Goto(w, pc),
           Called(w), call[w].op = RunCase, ~At(w, "write"), UNCHANGED asked
    PROVE  /\ call' \in [Callers -> Calls] /\ call'[w].pc = pc /\ Called(w)'
           /\ \A v \in Callers : v # w => call'[v] = call[v]
<1>1. pc \in PCs
  BY DEF PCs
<1>2. /\ call' \in [Callers -> Calls] /\ call'[w] = [call[w] EXCEPT !.pc = pc]
      /\ \A v \in Callers : v # w => call'[v] = call[v]
  BY <1>1, Going
<1>3. /\ call'[w].pc = pc /\ call'[w].op = call[w].op /\ call'[w].mine = call[w].mine
  BY <1>2 DEF LineageTypeOK
<1>4. Called(w)'
  BY <1>3 DEF Called, At
<1>5. QED
  BY <1>2, <1>3, <1>4

LEMMA AuthorizeInv ==
    ASSUME LineageInv, NEW w \in Callers, Authorize(w)
    PROVE  LineageInv'
<1>1. LineageTypeOK /\ Called(w) /\ ChainWhole /\ GuardHeld /\ At(w, "authorize")
  BY DEF LineageInv, Authorize
<1>2. UNCHANGED <<claims, completed, leased, stored, files, consumed, effects,
                  asked, claimants, breaks>>
  BY DEF Authorize, HostRecords, Lineage, Answers
<1>3. PICK pc \in {"check", "answer"} : Goto(w, pc)
  BY DEF Authorize
<1>4. call[w].op = RunCase /\ ~At(w, "write") /\ asked \in Nat
  BY <1>1 DEF Called, At, LineageTypeOK
<1>5. /\ call' \in [Callers -> Calls] /\ call'[w].pc = pc /\ Called(w)'
      /\ \A v \in Callers : v # w => call'[v] = call[v]
  BY <1>1, <1>2, <1>3, <1>4, Passing
<1>6. permit' \in BOOLEAN
  BY DEF Authorize
<1>7. LineageTypeOK'
  BY <1>1, <1>2, <1>5, <1>6 DEF LineageTypeOK, Calls
<1>8. ChainWhole'
  BY <1>1, <1>2 DEF ChainWhole, Named
<1>9. GuardHeld'
  BY <1>1, <1>2, <1>3, <1>5, Unguarded
<1>10. QED
  BY <1>2, <1>4, <1>5, <1>7, <1>8, <1>9, CallStep

LEMMA CheckPermitInv ==
    ASSUME LineageInv, NEW w \in Callers, CheckPermit(w)
    PROVE  LineageInv'
<1>1. LineageTypeOK /\ Called(w) /\ ChainWhole /\ GuardHeld /\ At(w, "check")
  BY DEF LineageInv, CheckPermit
<1>2. UNCHANGED <<claims, completed, leased, stored, files, permit, consumed, effects,
                  asked, claimants, breaks>>
  BY DEF CheckPermit, HostRecords, Lineage, Effect, Answers
<1>3. PICK pc \in {"consume", "answer"} : Goto(w, pc)
  BY DEF CheckPermit
<1>4. call[w].op = RunCase /\ ~At(w, "write") /\ asked \in Nat
  BY <1>1 DEF Called, At, LineageTypeOK
<1>5. /\ call' \in [Callers -> Calls] /\ call'[w].pc = pc /\ Called(w)'
      /\ \A v \in Callers : v # w => call'[v] = call[v]
  BY <1>1, <1>2, <1>3, <1>4, Passing
<1>6. LineageTypeOK'
  BY <1>1, <1>2, <1>5 DEF LineageTypeOK, Calls
<1>7. ChainWhole'
  BY <1>1, <1>2 DEF ChainWhole, Named
<1>8. GuardHeld'
  BY <1>1, <1>2, <1>3, <1>5, Unguarded
<1>9. QED
  BY <1>2, <1>4, <1>5, <1>6, <1>7, <1>8, CallStep

\* Whoever consumes the permit is the only one about to run the case.
LEMMA ConsumeInv ==
    ASSUME LineageInv, NEW w \in Callers, Consume(w)
    PROVE  LineageInv'
<1>1. LineageTypeOK /\ Called(w) /\ ChainWhole /\ GuardHeld /\ At(w, "consume")
  BY DEF LineageInv, Consume
<1>2. UNCHANGED <<claims, completed, leased, stored, files, permit, effects,
                  asked, claimants, breaks>>
  BY DEF Consume, HostRecords, Lineage, Answers
<1>3. /\ consumed' /\ Goto(w, IF consumed THEN "answer" ELSE "run")
  BY DEF Consume
<1>4. PICK pc \in {"answer", "run"} : Goto(w, pc) /\ (pc = "run" => ~consumed)
  BY <1>3
<1>5. call[w].op = RunCase /\ ~At(w, "write") /\ asked \in Nat /\ effects \in Nat
  BY <1>1 DEF Called, At, LineageTypeOK
<1>6. /\ call' \in [Callers -> Calls] /\ call'[w].pc = pc /\ Called(w)'
      /\ \A v \in Callers : v # w => call'[v] = call[v]
  BY <1>1, <1>2, <1>4, <1>5, Passing
<1>7. LineageTypeOK'
  <2>1. consumed' \in BOOLEAN
    BY DEF Consume
  <2>2. QED
    BY <1>1, <1>2, <1>6, <2>1 DEF LineageTypeOK, Calls
<1>8. ChainWhole'
  BY <1>1, <1>2 DEF ChainWhole, Named
<1>9. GuardHeld'
  <2>1. ~consumed => effects = 0 /\ \A v \in Callers : ~At(v, "run")
    BY <1>1, <1>5 DEF GuardHeld
  <2>2. \A v \in Callers : At(v, "run")' =>
            /\ effects = 0
            /\ \A u \in Callers : At(u, "run")' => u = v
    <3>1. CASE pc = "run"
      BY <1>4, <1>6, <2>1, <3>1 DEF At
    <3>2. CASE pc # "run"
      BY <1>1, <1>6, <3>2 DEF At, GuardHeld
    <3>3. QED
      BY <3>1, <3>2
  <2>3. QED
    BY <1>1, <1>2, <1>3, <2>2 DEF GuardHeld
<1>10. QED
  BY <1>2, <1>5, <1>6, <1>7, <1>8, <1>9, CallStep

LEMMA RunInv ==
    ASSUME LineageInv, NEW w \in Callers, Run(w)
    PROVE  LineageInv'
<1>1. LineageTypeOK /\ Called(w) /\ ChainWhole /\ GuardHeld /\ At(w, "run") /\ Goto(w, "answer")
  BY DEF LineageInv, Run
<1>2. UNCHANGED <<claims, completed, leased, stored, files, permit, consumed,
                  asked, claimants, breaks>>
  BY DEF Run, HostRecords, Lineage, Answers
<1>3. effects = 0 /\ effects' = 1 /\ consumed
  BY <1>1 DEF GuardHeld, Run
<1>4. call[w].op = RunCase /\ ~At(w, "write") /\ asked \in Nat /\ call[w].op <= asked + 1
  BY <1>1 DEF Called, At, LineageTypeOK
<1>5. /\ call' \in [Callers -> Calls] /\ call'[w].pc = "answer" /\ Called(w)'
      /\ \A v \in Callers : v # w => call'[v] = call[v]
  BY <1>1, <1>2, <1>4, Passing
<1>6. LineageTypeOK'
  BY <1>1, <1>2, <1>3, <1>5 DEF LineageTypeOK, Calls
<1>7. ChainWhole'
  BY <1>1, <1>2 DEF ChainWhole, Named
<1>8. GuardHeld'
  <2>1. asked >= ReplayGuard
    BY <1>4 DEF RunCase, ReplayGuard
  <2>2. \A v \in Callers : ~At(v, "run")'
    BY <1>1, <1>5 DEF At, GuardHeld
  <2>3. QED
    BY <1>1, <1>2, <1>3, <2>1, <2>2 DEF GuardHeld
<1>9. QED
  BY <1>2, <1>4, <1>5, <1>6, <1>7, <1>8, CallStep

LEMMA CrashInv ==
    ASSUME LineageInv, NEW w \in Callers, Crash(w)
    PROVE  LineageInv'
<1>1. LineageTypeOK /\ Called(w) /\ ChainWhole /\ GuardHeld /\ End(w)
  BY DEF LineageInv, Crash
<1>2. UNCHANGED <<claims, completed, leased, stored, files, permit, consumed, effects,
                  asked, claimants>>
  BY DEF Crash, HostRecords, Lineage, Effect, Answers
<1>3. asked \in Nat /\ breaks' \in 0 .. MaxBreaks
  BY <1>1, LineageAssumption DEF LineageTypeOK, Crash
<1>4. /\ call' \in [Callers -> Calls] /\ call'[w] = Idle
      /\ \A v \in Callers : v # w => call'[v] = call[v]
  BY <1>1, Ending
<1>5. Called(w)' /\ call'[w].pc # "run"
  BY <1>2, <1>3, <1>4, EndedIsCalled
<1>6. LineageTypeOK'
  BY <1>1, <1>2, <1>3, <1>4 DEF LineageTypeOK, Calls
<1>7. ChainWhole'
  BY <1>1, <1>2 DEF ChainWhole, Named
<1>8. GuardHeld'
  BY <1>1, <1>2, <1>4, <1>5, Unguarded
<1>9. QED
  BY <1>2, <1>3, <1>4, <1>5, <1>6, <1>7, <1>8, CallStep

\* What is answered was there: the claim of the replay guard with its receipt.
LEMMA AnswerInv ==
    ASSUME LineageInv, NEW w \in Callers, Answer(w)
    PROVE  LineageInv'
<1> DEFINE op == call[w].op
           winner == op = ReplayGuard /\ call[w].mine
           news == op # ReplayGuard \/ winner
<1>1. LineageTypeOK /\ Called(w) /\ ChainWhole /\ GuardHeld /\ End(w)
  BY DEF LineageInv, Answer
<1>2. UNCHANGED <<claims, completed, leased, stored, files, permit, consumed, effects, breaks>>
  BY DEF Answer, HostRecords, Lineage, Effect
<1>3. /\ asked' = (IF news /\ op > asked THEN op ELSE asked)
      /\ claimants' = (IF winner THEN claimants \union {w} ELSE claimants)
      /\ At(w, "answer") \/ Written(w)
  BY DEF Answer
<1>4. op \in 0 .. 6 /\ asked \in 0 .. 6 /\ op <= asked + 1
  BY <1>1 DEF LineageTypeOK, Called
<1>5. asked' \in 0 .. 6 /\ asked' >= asked /\ asked' \in Nat
  BY <1>3, <1>4
<1>6. /\ call' \in [Callers -> Calls] /\ call'[w] = Idle
      /\ \A v \in Callers : v # w => call'[v] = call[v]
  BY <1>1, Ending
<1>7. Called(w)' /\ call'[w].pc # "run"
  BY <1>5, <1>6, EndedIsCalled
<1>8. LineageTypeOK'
  BY <1>1, <1>2, <1>3, <1>5, <1>6 DEF LineageTypeOK, Calls
<1>9. ChainWhole'
  BY <1>1, <1>2 DEF ChainWhole, Named
<1>10. winner => claims[ReplayGuard] = w /\ files[ReplayGuard] = w
  <2>1. SUFFICES ASSUME winner PROVE claims[ReplayGuard] = w /\ files[ReplayGuard] = w
    OBVIOUS
  <2>2. At(w, "write") /\ claims[ReplayGuard] = w /\ op = ReplayGuard
    BY <1>1, <2>1 DEF Called
  <2>3. call[w].goal >= ReplayGuard /\ call[w].goal \in 0 .. Index
    BY <1>1, <2>2 DEF Called, ReplayGuard, CompleteReplay, LineageTypeOK
  <2>4. files[ReplayGuard] # NoCaller
    BY <1>3, <2>2, <2>3 DEF Written, At, ReplayGuard, Index
  <2>5. ReplayGuard \in Receipts /\ Named(ReplayGuard) = claims[ReplayGuard]
    BY DEF ReplayGuard, Receipts, Index, Named
  <2>6. files[ReplayGuard] = claims[ReplayGuard]
    BY <1>1, <2>4, <2>5 DEF ChainWhole
  <2>7. QED
    BY <2>2, <2>6
<1>11. claimants' \subseteq {claims[ReplayGuard]} \ {NoCaller}
  BY <1>1, <1>3, <1>10, LineageAssumption DEF GuardHeld
<1>12. asked' >= ReplayGuard => files[ReplayGuard] \in claimants'
  <2>1. CASE asked >= ReplayGuard
    BY <1>1, <1>3, <2>1 DEF GuardHeld
  <2>2. CASE ~(asked >= ReplayGuard)
    <3>1. asked' >= ReplayGuard => winner
      BY <1>3, <1>4, <2>2 DEF ReplayGuard
    <3>2. QED
      BY <1>3, <1>10, <3>1
  <2>3. QED
    BY <2>1, <2>2
<1>13. files[ReplayGuard] \in claimants => files[ReplayGuard] \in claimants'
  BY <1>3
<1> HIDE DEF winner, news, op
<1>14. GuardHeld'
  <2>1. \A v \in Callers : At(v, "run")' => At(v, "run")
    BY <1>6, <1>7 DEF At
  <2>2. QED
    BY <1>1, <1>2, <1>11, <1>12, <1>13, <2>1 DEF GuardHeld
<1>15. QED
  BY <1>2, <1>5, <1>6, <1>7, <1>8, <1>9, <1>14, CallStep
-----------------------------------------------------------------------------
LEMMA LineageInitInv == LineageInit => LineageInv
<1> SUFFICES ASSUME LineageInit PROVE LineageInv
  OBVIOUS
<1>1. \A w \in Callers : call[w] = Idle
  BY DEF LineageInit
<1>2. LineageTypeOK
  <2>1. call \in [Callers -> Calls]
    BY IdleIsCall DEF LineageInit
  <2>2. breaks \in 0 .. MaxBreaks /\ asked \in 0 .. 6 /\ effects \in Nat
    BY LineageAssumption DEF LineageInit
  <2>3. QED
    BY <2>1, <2>2 DEF LineageInit, LineageTypeOK, Calls
<1>3. \A w \in Callers : Called(w)
  <2>1. /\ Idle.pc = "idle" /\ ~Idle.mine
        /\ Idle.pc \notin {"authorize", "check", "consume", "run"}
    BY DEF Idle
  <2>2. Idle.op <= asked + 1
    BY DEF LineageInit, Idle
  <2>3. QED
    BY <1>1, <2>1, <2>2, Zenon DEF Called, At
<1>4. ChainWhole
  BY DEF LineageInit, ChainWhole
<1>5. GuardHeld
  BY <1>1 DEF LineageInit, GuardHeld, At, Idle, ReplayGuard
<1>6. QED
  BY <1>2, <1>3, <1>4, <1>5 DEF LineageInv

LEMMA LineageStepInv == LineageInv /\ [LineageNext]_lineageVars => LineageInv'
<1> SUFFICES ASSUME LineageInv, [LineageNext]_lineageVars PROVE LineageInv'
  OBVIOUS
<1>1. CASE UNCHANGED lineageVars
  BY <1>1 DEF lineageVars, LineageInv, LineageTypeOK, Called, ChainWhole, GuardHeld, At, Named
<1>2. ASSUME NEW w \in Callers, LineageSteps(w) PROVE LineageInv'
  BY <1>2, ClaimRecordInv, GuardRecordInv, LookUpClaimInv, CompleteRecordInv, VerifyRecordInv,
     StoreInv, MaterializeInv, LeaseInv, AnswerInv, AuthorizeInv, CheckPermitInv, ConsumeInv,
     RunInv
     DEF LineageSteps
<1>3. QED
  BY <1>1, <1>2, AskInv, CrashInv DEF LineageNext

\* The inductive invariant of the lineage, for any callers and crashes.
THEOREM LineageInvariance == LineageSpec => []LineageInv
BY LineageInitInv, LineageStepInv, PTL DEF LineageSpec

\* However calls overlap, repeat and stop, every receipt is of the claim on record and
\* comes after those it rests on, and the case runs once, after the receipt of the
\* one claim that was handed out (writeLineageReceipt, replay-guard, exec-argv).
THEOREM LineageIsSound == LineageSpec => []LineageSound
<1>1. LineageInv => LineageSound
  <2>1. SUFFICES ASSUME LineageInv PROVE LineageSound
    OBVIOUS
  <2>2. ChainWhole /\ GuardHeld
    BY <2>1 DEF LineageInv
  <2>3. \A i \in Receipts : Rests(i) \subseteq 1 .. (i - 1)
    BY DEF Rests, Receipts, Index, Completion, ReplayGuard, ClaimPreauthorization, VerifyGrant
  <2>4. ChainSound
    BY <2>2, <2>3 DEF ChainSound, ChainWhole
  <2>5. RunsOnRecord
    BY <2>2 DEF RunsOnRecord, GuardHeld
  <2>6. QED
    BY <2>4, <2>5 DEF LineageSound
<1>2. QED
  BY <1>1, LineageInvariance, PTL

-----------------------------------------------------------------------------
(* The budgets of an operation (ResourceBudgets).                          *)

\* The module of the record counts with the operators of FiniteSets.
LEMMA SameCount ==
    /\ \A S : B!IsFiniteSet(S) <=> IsFiniteSet(S)
    /\ \A S : B!Cardinality(S) = Cardinality(S)
<1>1. \A S : B!IsFiniteSet(S) <=> IsFiniteSet(S)
  BY DEF B!IsFiniteSet, IsFiniteSet
<1>2. \A S : B!Cardinality(S) = Cardinality(S)
  BY DEF B!Cardinality, Cardinality
<1>3. QED
  BY <1>1, <1>2

\* What a step of one user changes of the two sets.
LEMMA BudgetSets ==
    ASSUME B!TypeOK, NEW u \in Procs,
           user' = [user EXCEPT ![u] = user'[u]]
    PROVE  /\ B!Probing' = IF user'[u].pc = "probe" THEN B!Probing \union {u}
                                                 ELSE B!Probing \ {u}
           /\ user'[u].pc # "after" => B!Taken' \subseteq B!Taken
           /\ user[u].pc = "after" => {u} \X (1 .. user[u].cost) \subseteq B!Taken
           /\ user[u].pc = "after" /\ user'[u].pc # "after"
              => B!Taken' \subseteq B!Taken \ ({u} \X (1 .. user[u].cost))
           /\ user[u].pc # "after" /\ user'[u].pc = "after"
              => B!Taken' = B!Taken \union ({u} \X (1 .. user'[u].cost))
<1>1. \A v \in Procs : v # u => user'[v] = user[v]
  BY DEF B!TypeOK, B!UserStates
<1>2. B!Probing' = IF user'[u].pc = "probe" THEN B!Probing \union {u}
                                         ELSE B!Probing \ {u}
  BY <1>1 DEF B!Probing, B!At
<1>3. B!Finishing' = IF user'[u].pc = "after" THEN B!Finishing \union {u}
                                           ELSE B!Finishing \ {u}
  BY <1>1 DEF B!Finishing, B!At
<1>4. \A x : x \in B!Taken <=> \E v \in B!Finishing : x \in {v} \X (1 .. user[v].cost)
  BY DEF B!Taken
<1>5. \A x : x \in B!Taken' <=> \E v \in B!Finishing' : x \in {v} \X (1 .. user'[v].cost)
  BY DEF B!Taken
<1>6. u \in B!Finishing <=> user[u].pc = "after"
  BY DEF B!Finishing, B!At
<1>7. \A v \in B!Finishing : v \in Procs
  BY DEF B!Finishing
<1>8. \A v, w : v # w => \A x : x \in {v} \X (1 .. user[v].cost)
                              => x \notin {w} \X (1 .. user[w].cost)
  OBVIOUS
<1>9. user'[u].pc # "after" => B!Taken' \subseteq B!Taken
  BY <1>1, <1>3, <1>4, <1>5, <1>7
<1>10. user[u].pc = "after" => {u} \X (1 .. user[u].cost) \subseteq B!Taken
  BY <1>4, <1>6
<1>11. user[u].pc = "after" /\ user'[u].pc # "after"
       => B!Taken' \subseteq B!Taken \ ({u} \X (1 .. user[u].cost))
  <2> SUFFICES ASSUME user[u].pc = "after", user'[u].pc # "after", NEW x \in B!Taken'
               PROVE  x \in B!Taken /\ x \notin {u} \X (1 .. user[u].cost)
    OBVIOUS
  <2>1. PICK v \in B!Finishing \ {u} : x \in {v} \X (1 .. user[v].cost)
    BY <1>1, <1>3, <1>5, <1>7
  <2>2. QED
    BY <2>1, <1>4, <1>8
<1>12. user[u].pc # "after" /\ user'[u].pc = "after"
       => B!Taken' = B!Taken \union ({u} \X (1 .. user'[u].cost))
  <2> SUFFICES ASSUME user[u].pc # "after", user'[u].pc = "after", NEW x
               PROVE  x \in B!Taken' <=> x \in B!Taken \/ x \in {u} \X (1 .. user'[u].cost)
    OBVIOUS
  <2>1. \A v \in B!Finishing : v # u /\ user'[v] = user[v]
    BY <1>1, <1>6, <1>7
  <2>2. QED
    BY <2>1, <1>3, <1>4, <1>5
<1>13. QED
  BY <1>2, <1>9, <1>10, <1>11, <1>12

\* The time of one command, counted one by one.
LEMMA OneCommand ==
    ASSUME NEW u, NEW c \in Nat
    PROVE  IsFiniteSet({u} \X (1 .. c)) /\ Cardinality({u} \X (1 .. c)) = c
<1>1. IsFiniteSet(1 .. c) /\ Cardinality(1 .. c) = c
  <2>1. IsFiniteSet(1 .. c) /\ Cardinality(1 .. c) = IF 1 > c THEN 0 ELSE c - 1 + 1
    BY FS_Interval
  <2>2. QED
    BY <2>1
<1>2. IsFiniteSet({u}) /\ Cardinality({u}) = 1
  BY FS_Singleton
<1>3. IsFiniteSet({u} \X (1 .. c))
      /\ Cardinality({u} \X (1 .. c)) = 1 * c
  BY <1>1, <1>2, FS_Product
<1>4. QED
  BY <1>3

\* Fewer requests to be made are counted as long as the record is.
LEMMA FewerRequests ==
    ASSUME B!TypeOK, B!RequestsCounted, B!Probing' \subseteq B!Probing,
           probes' = probes, usage'.net = usage.net
    PROVE  B!RequestsCounted'
<1>1. IsFiniteSet(B!Probing') /\ Cardinality(B!Probing') <= Cardinality(B!Probing)
  BY SameCount, FS_Subset DEF B!RequestsCounted
<1>2. Cardinality(B!Probing) \in Nat /\ Cardinality(B!Probing') \in Nat
  BY SameCount, <1>1, FS_CardinalityType DEF B!RequestsCounted
<1>3. probes + Cardinality(B!Probing') <= usage.net
  BY SameCount, <1>1, <1>2 DEF B!RequestsCounted, B!TypeOK, B!UserStates
<1>4. QED
  BY SameCount, <1>1, <1>3 DEF B!RequestsCounted

\* So is less time of commands that are to pass.
LEMMA LessTime ==
    ASSUME B!TypeOK, B!TimeCounted, B!Taken' \subseteq B!Taken,
           passed' = passed, usage'.cpu \in Nat, usage.cpu <= usage'.cpu
    PROVE  B!TimeCounted'
<1>1. IsFiniteSet(B!Taken') /\ Cardinality(B!Taken') <= Cardinality(B!Taken)
  BY SameCount, FS_Subset DEF B!TimeCounted
<1>2. Cardinality(B!Taken) \in Nat /\ Cardinality(B!Taken') \in Nat
  BY SameCount, <1>1, FS_CardinalityType DEF B!TimeCounted
<1>3. passed + Cardinality(B!Taken') <= usage'.cpu
  BY SameCount, <1>1, <1>2 DEF B!TimeCounted, B!TypeOK, B!UserStates
<1>4. QED
  BY SameCount, <1>1, <1>3 DEF B!TimeCounted

\* At the start nothing is asked and nothing has run.
LEMMA BudgetInitInv == B!Init => B!BudgetInv
<1> SUFFICES ASSUME B!Init PROVE B!BudgetInv
  OBVIOUS
<1>1. B!TypeOK
  BY PartsAssumption DEF B!BudgetConstants, B!Init, B!TypeOK, B!UserStates, B!Idle
<1>2. B!LockHeld
  BY PartsAssumption DEF B!BudgetConstants, B!Init, B!LockHeld, B!Idle
<1>3. B!Probing = {} /\ B!Finishing = {}
  BY DEF B!Init, B!Probing, B!Finishing, B!At, B!Idle
<1>4. B!Taken = {}
  BY <1>3 DEF B!Taken
<1>5. B!RequestsCounted /\ B!TimeCounted
  BY SameCount, <1>3, <1>4, PartsAssumption, FS_EmptySet
     DEF B!RequestsCounted, B!TimeCounted, B!Init, B!BudgetConstants
<1>6. QED
  BY <1>1, <1>2, <1>5 DEF B!BudgetInv

\* A step that leaves the record and what is counted of it alone.
LEMMA QuietUser ==
    ASSUME B!BudgetInv, B!TypeOK', NEW u \in Procs,
           user' = [user EXCEPT ![u] = user'[u]],
           user'[u].pc \notin {"add", "consume", "probe", "after"},
           holder' = (IF holder = u THEN NoUser ELSE holder),
           usage'.net = usage.net, usage.cpu <= usage'.cpu,
           usage' = usage \/ holder = u,
           probes' = probes, passed' = passed
    PROVE  B!BudgetInv'
<1>1. B!RequestsCounted'
  BY BudgetSets, FewerRequests DEF B!BudgetInv
<1>2. B!TimeCounted'
  BY BudgetSets, LessTime DEF B!BudgetInv, B!TypeOK, B!UserStates
<1>3. B!LockHeld'
  BY PartsAssumption DEF B!BudgetInv, B!LockHeld, B!TypeOK, B!UserStates, B!BudgetConstants
<1>4. QED
  BY <1>1, <1>2, <1>3 DEF B!BudgetInv

\* Each step of a user keeps the invariant.
LEMMA BudgetUserInv ==
    ASSUME B!BudgetInv, NEW u \in Procs,
           \/ B!Begin(u) \/ B!Enforce(u) \/ B!RunMeasuredCommand(u) \/ B!ReadUsage(u)
           \/ B!ConsumeNetworkRequest(u) \/ B!ReadinessCheck(u) \/ B!AddUsage(u) \/ B!After(u)
           \/ B!Crash(u)
    PROVE  B!BudgetInv'
<1>k. /\ usage \in [net : Nat, cpu : Nat] /\ probes \in Nat /\ passed \in Nat
      /\ user[u] \in B!UserStates /\ user \in [Procs -> B!UserStates]
      /\ begun \in 0 .. MaxRuns /\ holder \in Procs \union {NoUser}
  BY DEF B!BudgetInv, B!TypeOK, B!UserStates
<1>c. /\ NoUser \notin Procs /\ NetLimit \in Nat /\ CpuLimit \in Nat /\ MaxRuns \in Nat
      /\ Costs \subseteq Nat
  BY PartsAssumption DEF B!BudgetConstants
<1>t. /\ usage.net \in Nat /\ usage.cpu \in Nat /\ probes \in Nat /\ passed \in Nat
      /\ user[u].cost \in Nat /\ NoUser \notin Procs
      /\ NetLimit \in Nat /\ CpuLimit \in Nat
  <2>1. user[u].cost \in Costs \union {0} /\ usage.net \in Nat /\ usage.cpu \in Nat
    BY <1>k DEF B!UserStates
  <2>2. \A n \in Costs \union {0} : n \in Nat
    BY <1>c
  <2>3. user[u].cost \in Nat
    BY <2>1, <2>2
  <2>4. QED
    BY <1>k, <1>c, <2>1, <2>3
<1>1. B!TypeOK' /\ user' = [user EXCEPT ![u] = user'[u]]
  <2>1. /\ user' = [user EXCEPT ![u] = user'[u]] /\ user'[u] \in B!UserStates
        /\ begun' \in 0 .. MaxRuns /\ probes' \in Nat /\ passed' \in Nat
        /\ holder' \in Procs \union {NoUser}
    <3>1. CASE B!Begin(u)
      BY <3>1, <1>k, <1>c DEF B!Begin, B!Goto, B!At, B!Record, B!History, B!UserStates
    <3>2. CASE \/ B!Enforce(u) \/ B!RunMeasuredCommand(u) \/ B!ReadUsage(u)
               \/ B!ConsumeNetworkRequest(u)
      BY <3>2, <1>k, <1>c DEF B!Enforce, B!RunMeasuredCommand, B!ReadUsage,
           B!ConsumeNetworkRequest,
         B!Goto, B!Quit, B!Idle, B!Record, B!History, B!UserStates
    <3>3. CASE B!ReadinessCheck(u) \/ B!AddUsage(u) \/ B!Crash(u)
      BY <3>3, <1>k, <1>c DEF B!ReadinessCheck, B!AddUsage, B!Crash,
         B!Goto, B!Quit, B!Idle, B!Record, B!History, B!UserStates
    <3>4. CASE B!After(u)
      BY <3>4, <1>k, <1>t DEF B!After, B!Quit, B!Idle, B!Record, B!History, B!UserStates
    <3>5. QED
      BY <3>1, <3>2, <3>3, <3>4
  <2>2. usage' \in [net : Nat, cpu : Nat]
    BY <1>k, <1>t DEF B!Begin, B!Enforce, B!RunMeasuredCommand, B!ReadUsage,
         B!ConsumeNetworkRequest,
       B!ReadinessCheck, B!AddUsage, B!After, B!Crash, B!Record, B!UserStates
  <2>3. user' \in [Procs -> B!UserStates]
    BY <1>k, <2>1
  <2>4. QED
    BY <2>1, <2>2, <2>3 DEF B!TypeOK, B!UserStates
<1>2. CASE B!Begin(u) \/ B!Enforce(u) \/ B!RunMeasuredCommand(u) \/ B!Crash(u)
  <2>1. /\ user'[u].pc \notin {"add", "consume", "probe", "after"}
        /\ holder' = (IF holder = u THEN NoUser ELSE holder)
    BY <1>2 DEF B!BudgetInv, B!TypeOK, B!UserStates, B!LockHeld, B!Begin, B!Enforce,
         B!RunMeasuredCommand,
       B!Crash, B!At, B!Goto, B!Quit, B!Record, B!Idle
  <2>2. usage' = usage /\ probes' = probes /\ passed' = passed
    BY <1>2 DEF B!Begin, B!Enforce, B!RunMeasuredCommand, B!Crash, B!Record, B!History
  <2>3. QED
    BY <1>t, <1>1, <2>1, <2>2, QuietUser
<1>3. CASE B!ReadUsage(u)
  <2>1. /\ user[u].pc \in {"ran", "ask"} /\ holder = NoUser /\ holder' = u
        /\ user'[u].pc \in {"add", "consume"} /\ user'[u].seen = usage
        /\ usage' = usage /\ probes' = probes /\ passed' = passed
    BY <1>3 DEF B!ReadUsage, B!BudgetInv, B!TypeOK, B!UserStates, B!History
  <2>2. B!RequestsCounted' /\ B!TimeCounted'
    BY <1>t, <1>1, <2>1, BudgetSets, FewerRequests, LessTime DEF B!BudgetInv
  <2>3. B!LockHeld'
    BY <1>t, <1>1, <2>1 DEF B!BudgetInv, B!TypeOK, B!UserStates, B!LockHeld
  <2>4. QED
    BY <1>1, <2>2, <2>3 DEF B!BudgetInv
<1>4. CASE B!ConsumeNetworkRequest(u)
  <2>1. /\ user[u].pc = "consume" /\ holder = u /\ holder' = NoUser
        /\ user[u].seen = usage
        /\ probes' = probes /\ passed' = passed /\ usage'.cpu = usage.cpu
    BY <1>4 DEF B!ConsumeNetworkRequest, B!BudgetInv, B!LockHeld, B!At, B!History, B!TypeOK,
         B!UserStates
  <2>2. B!LockHeld'
    BY <1>4, <1>t, <1>1, <2>1
       DEF B!ConsumeNetworkRequest, B!BudgetInv, B!TypeOK, B!UserStates, B!LockHeld, B!At,
            B!Goto, B!Quit, B!Idle
  <2>3. B!TimeCounted'
    <3>1. user'[u].pc # "after"
      BY <1>4 DEF B!ConsumeNetworkRequest, B!BudgetInv, B!TypeOK, B!UserStates, B!Goto,
           B!Quit, B!Idle
    <3>2. QED
      BY <1>t, <1>1, <2>1, <3>1, BudgetSets, LessTime DEF B!BudgetInv
  <2>4. B!RequestsCounted'
    <3>1. CASE usage' = usage /\ user'[u].pc = "idle"
      BY <1>1, <2>1, <3>1, BudgetSets, FewerRequests DEF B!BudgetInv
    <3>2. CASE usage.net < NetLimit /\ usage'.net = usage.net + 1 /\ user'[u].pc = "probe"
      <4>1. B!Probing' = B!Probing \union {u} /\ u \notin B!Probing
        BY <1>1, <2>1, <3>2, BudgetSets DEF B!BudgetInv, B!Probing, B!At
      <4>2. IsFiniteSet(B!Probing) /\ Cardinality(B!Probing) \in Nat
        BY SameCount, FS_CardinalityType DEF B!BudgetInv, B!RequestsCounted
      <4>3. IsFiniteSet(B!Probing') /\ Cardinality(B!Probing') = Cardinality(B!Probing) + 1
        BY <4>1, <4>2, FS_AddElement
      <4>4. probes' + Cardinality(B!Probing') <= usage'.net /\ usage'.net <= NetLimit
        BY SameCount, <1>t, <2>1, <3>2, <4>2, <4>3 DEF B!BudgetInv, B!RequestsCounted
      <4>5. QED
        BY SameCount, <4>3, <4>4 DEF B!RequestsCounted
    <3>3. QED
      BY <1>4, <1>t, <2>1, <3>1, <3>2
         DEF B!ConsumeNetworkRequest, B!Goto, B!Quit, B!Idle, B!BudgetInv, B!TypeOK,
              B!UserStates
  <2>5. QED
    BY <1>1, <2>2, <2>3, <2>4 DEF B!BudgetInv
<1>5. CASE B!ReadinessCheck(u)
  <2>1. /\ user[u].pc = "probe" /\ user'[u].pc \in {"checks", "idle"}
        /\ usage' = usage /\ holder' = holder /\ probes' = probes + 1 /\ passed' = passed
    BY <1>5 DEF B!ReadinessCheck, B!BudgetInv, B!TypeOK, B!UserStates, B!At, B!Goto, B!Quit,
         B!Record, B!Idle
  <2>2. B!LockHeld'
    BY <1>t, <1>1, <2>1 DEF B!BudgetInv, B!TypeOK, B!UserStates, B!LockHeld
  <2>3. B!TimeCounted'
    BY <1>t, <1>1, <2>1, BudgetSets, LessTime DEF B!BudgetInv
  <2>4. B!RequestsCounted'
    <3>1. B!Probing' = B!Probing \ {u} /\ u \in B!Probing
      BY <1>1, <2>1, BudgetSets DEF B!BudgetInv, B!Probing, B!At
    <3>2. IsFiniteSet(B!Probing) /\ Cardinality(B!Probing) \in Nat
      BY SameCount, FS_CardinalityType DEF B!BudgetInv, B!RequestsCounted
    <3>3. IsFiniteSet(B!Probing') /\ Cardinality(B!Probing') = Cardinality(B!Probing) - 1
      BY <3>1, <3>2, FS_RemoveElement
    <3>4. probes' + Cardinality(B!Probing') <= usage'.net
      BY SameCount, <1>t, <2>1, <3>2, <3>3 DEF B!BudgetInv, B!RequestsCounted
    <3>5. QED
      BY SameCount, <2>1, <3>3, <3>4 DEF B!BudgetInv, B!RequestsCounted
  <2>5. QED
    BY <1>1, <2>2, <2>3, <2>4 DEF B!BudgetInv
<1>6. CASE B!AddUsage(u)
  <2> DEFINE c == user[u].cost
  <2>1. /\ user[u].pc = "add" /\ holder = u /\ holder' = NoUser /\ user[u].seen = usage
        /\ usage'.net = usage.net /\ usage'.cpu = usage.cpu + c
        /\ probes' = probes /\ passed' = passed
    BY <1>6 DEF B!AddUsage, B!BudgetInv, B!LockHeld, B!At, B!History, B!TypeOK, B!UserStates
  <2>2. \/ user'[u].pc = "after" /\ user'[u].cost = c
        \/ user'[u].pc = "idle"
    BY <1>6 DEF B!AddUsage, B!Goto, B!Quit, B!Idle, B!BudgetInv, B!TypeOK, B!UserStates
  <2> HIDE DEF c
  <2>3. B!LockHeld'
    BY <1>t, <1>1, <2>1, <2>2 DEF B!BudgetInv, B!TypeOK, B!UserStates, B!LockHeld
  <2>4. B!RequestsCounted'
    BY <1>1, <2>1, <2>2, BudgetSets, FewerRequests DEF B!BudgetInv
  <2>5. B!TimeCounted'
    <3>1. CASE user'[u].pc = "idle"
      BY <1>t, <1>1, <2>1, <3>1, BudgetSets, LessTime DEF B!BudgetInv, c
    <3>2. CASE user'[u].pc = "after" /\ user'[u].cost = c
      <4> DEFINE T == {u} \X (1 .. c)
      <4>1. c \in Nat
        BY <1>t DEF c
      <4>2. B!Taken' = B!Taken \union T
        BY <1>1, <2>1, <3>2, BudgetSets DEF B!BudgetInv
      <4>3. /\ IsFiniteSet(B!Taken) /\ Cardinality(B!Taken) \in Nat
            /\ IsFiniteSet(T) /\ Cardinality(T) = c
        BY SameCount, <4>1, OneCommand, FS_CardinalityType DEF B!BudgetInv, B!TimeCounted
      <4> HIDE DEF T
      <4>4. /\ IsFiniteSet(B!Taken \union T)
            /\ Cardinality(B!Taken \union T) <= Cardinality(B!Taken) + c
        <5>1. /\ IsFiniteSet(B!Taken \union T)
              /\ IsFiniteSet(B!Taken \intersect T)
              /\ Cardinality(B!Taken \union T) =
                   Cardinality(B!Taken) + Cardinality(T) - Cardinality(B!Taken \intersect T)
          BY <4>3, FS_Union, FS_Intersection
        <5>2. Cardinality(B!Taken \intersect T) \in Nat
          BY <5>1, FS_CardinalityType
        <5>3. QED
          BY <4>1, <4>3, <5>1, <5>2
      <4>5. Cardinality(B!Taken') \in Nat /\ IsFiniteSet(B!Taken')
        BY <4>2, <4>4, FS_CardinalityType
      <4>6. passed' + Cardinality(B!Taken') <= usage'.cpu
        BY SameCount, <1>t, <2>1, <4>1, <4>2, <4>3, <4>4, <4>5 DEF B!BudgetInv, B!TimeCounted
      <4>7. QED
        BY SameCount, <2>1, <4>5, <4>6 DEF B!BudgetInv, B!TimeCounted
    <3>3. QED
      BY <2>2, <3>1, <3>2
  <2>6. QED
    BY <1>1, <2>3, <2>4, <2>5 DEF B!BudgetInv
<1>7. CASE B!After(u)
  <2> DEFINE c == user[u].cost
  <2>1. /\ user[u].pc = "after" /\ user'[u].pc = "idle"
        /\ usage' = usage /\ holder' = holder /\ probes' = probes
        /\ passed' = passed \/ (passed' = passed + c /\ usage.cpu <= CpuLimit)
    BY <1>7 DEF B!After, B!BudgetInv, B!TypeOK, B!UserStates, B!At, B!Quit, B!Record, B!Idle,
         B!Within
  <2> HIDE DEF c
  <2>2. B!LockHeld'
    BY <1>t, <1>1, <2>1 DEF B!BudgetInv, B!TypeOK, B!UserStates, B!LockHeld
  <2>3. B!RequestsCounted'
    BY <1>1, <2>1, BudgetSets, FewerRequests DEF B!BudgetInv
  <2>4. B!TimeCounted'
    <3>1. CASE passed' = passed
      BY <1>t, <1>1, <2>1, <3>1, BudgetSets, LessTime DEF B!BudgetInv
    <3>2. CASE passed' = passed + c /\ usage.cpu <= CpuLimit
      <4> DEFINE T == {u} \X (1 .. c)
      <4>1. c \in Nat
        BY <1>t DEF c
      <4>2. B!Taken' \subseteq B!Taken \ T /\ T \subseteq B!Taken
        BY <1>1, <2>1, BudgetSets DEF B!BudgetInv, c
      <4>3. /\ IsFiniteSet(B!Taken) /\ Cardinality(B!Taken) \in Nat
            /\ IsFiniteSet(T) /\ Cardinality(T) = c
        BY SameCount, <4>1, OneCommand, FS_CardinalityType DEF B!BudgetInv, B!TimeCounted
      <4> HIDE DEF T
      <4>4. B!Taken \intersect T = T
        BY <4>2
      <4>5. /\ IsFiniteSet(B!Taken \ T)
            /\ Cardinality(B!Taken \ T) = Cardinality(B!Taken) - c
        <5>1. /\ IsFiniteSet(B!Taken \ T)
              /\ Cardinality(B!Taken \ T) =
                   Cardinality(B!Taken) - Cardinality(B!Taken \intersect T)
          BY <4>3, FS_Difference
        <5>2. QED
          BY <4>3, <4>4, <5>1
      <4>6. IsFiniteSet(B!Taken') /\ Cardinality(B!Taken') <= Cardinality(B!Taken \ T)
        BY <4>2, <4>5, FS_Subset
      <4>7. Cardinality(B!Taken') \in Nat
        BY <4>6, FS_CardinalityType
      <4>8. passed' + Cardinality(B!Taken') <= usage'.cpu
        BY SameCount, <1>t, <2>1, <3>2, <4>1, <4>3, <4>5, <4>6, <4>7
           DEF B!BudgetInv, B!TimeCounted
      <4>9. passed' <= CpuLimit
        BY <1>t, <2>1, <3>2, <4>1, <4>7, <4>8
      <4>10. QED
        BY SameCount, <4>6, <4>8, <4>9 DEF B!TimeCounted
    <3>3. QED
      BY <2>1, <3>1, <3>2
  <2>5. QED
    BY <1>1, <2>2, <2>3, <2>4 DEF B!BudgetInv
<1>8. QED
  BY <1>2, <1>3, <1>4, <1>5, <1>6, <1>7

\* Every step keeps it.
LEMMA BudgetStepInv == B!BudgetInv /\ [B!Next]_budgetVars => B!BudgetInv'
<1> SUFFICES ASSUME B!BudgetInv, [B!Next]_budgetVars PROVE B!BudgetInv'
  OBVIOUS
<1>1. CASE UNCHANGED budgetVars
  <2>1. UNCHANGED <<usage, holder, user, begun, probes, passed>>
    BY <1>1 DEF budgetVars
  <2>2. B!TypeOK' /\ B!LockHeld' /\ B!Probing' = B!Probing /\ B!Taken' = B!Taken
    BY <2>1 DEF B!BudgetInv, B!TypeOK, B!LockHeld, B!Probing, B!Taken, B!Finishing, B!At
  <2>3. B!RequestsCounted'
    BY <2>1, <2>2, FewerRequests DEF B!BudgetInv
  <2>4. B!TimeCounted'
    <3>1. usage.cpu \in Nat /\ usage' = usage /\ passed' = passed
      BY <2>1 DEF B!BudgetInv, B!TypeOK
    <3>2. usage'.cpu \in Nat /\ usage.cpu <= usage'.cpu
      BY <3>1
    <3>3. QED
      BY <2>2, <3>1, <3>2, LessTime DEF B!BudgetInv
  <2>5. QED
    BY <2>2, <2>3, <2>4 DEF B!BudgetInv
<1>2. QED
  BY <1>1, BudgetUserInv DEF B!Next

\* However users overlap and stop, no more network requests are made than were
\* approved, and the commands said to have passed took no more processor time than
\* that (withResourceBudget, consumeNetworkRequest).
THEOREM BudgetsAreKept == Spec => []BudgetKept
<1>1. Init => B!BudgetInv
  BY BudgetInitInv DEF Init
<1>2. B!BudgetInv /\ [Next]_allVars => B!BudgetInv'
  <2>1. [Next]_allVars => [B!Next]_budgetVars
    BY DEF Next, Only, allVars
  <2>2. QED
    BY <2>1, BudgetStepInv
<1>3. B!BudgetInv => BudgetKept
  <2>1. ASSUME B!BudgetInv PROVE probes <= NetLimit /\ passed <= CpuLimit
    <3>1. /\ probes \in Nat /\ passed \in Nat /\ usage.net \in Nat
          /\ NetLimit \in Nat /\ CpuLimit \in Nat
      BY <2>1, PartsAssumption DEF B!BudgetInv, B!TypeOK, B!BudgetConstants
    <3>2. Cardinality(B!Probing) \in Nat
      BY SameCount, <2>1, FS_CardinalityType DEF B!BudgetInv, B!RequestsCounted
    <3>3. QED
      BY SameCount, <2>1, <3>1, <3>2 DEF B!BudgetInv, B!RequestsCounted, B!TimeCounted
  <2>2. QED
    BY <2>1 DEF BudgetKept, B!BudgetKept
<1>4. QED
  BY <1>1, <1>2, <1>3, PTL DEF Spec

-----------------------------------------------------------------------------
(* The homes of the workers (WorkerHomes).                                 *)

\* A removal is of the last home of its slot, and its owner is where it says.
LEMMA JobKnown ==
    ASSUME H!HomesInv, NEW a \in H!Actors, job[a].stage # "none"
    PROVE  /\ job[a].slot \in Slots /\ job[a].gen \in H!Gens
           /\ job[a].gen = entry[job[a].slot].gen
           /\ a \in Slots => /\ cmd[a].pc = "removing" /\ job[a].slot = a
                            /\ job[a].gen = cmd[a].gen
           /\ a = H!Cleaner => cleaner.pc = "cleaning"
           /\ a # H!Cleaner => a \in Slots
<1>1. CASE a = H!Cleaner
  BY <1>1, PartsAssumption DEF H!HomesInv, H!CleanupKnown, H!HomesConstants, H!Cleaner
<1>2. CASE a # H!Cleaner
  BY <1>2 DEF H!HomesInv, H!CommandsKnown, H!Actors
<1>3. QED
  BY <1>1, <1>2

\* What a step of a removal must do to keep the invariant: touch no other home than
\* its own, and that one only under the lock of its state file.
LEMMA RemovalInv ==
    ASSUME H!HomesInv, H!TypeOK', NEW a \in H!Actors, job[a].stage # "none",
           NEW s, s = job[a].slot, NEW g, g = job[a].gen,
           entry' = entry,
           \A t \in Slots, k \in H!Gens :
              t # s \/ k # g \/ ~H!Removing(a) =>
                  homes'[t][k] = homes[t][k] /\ capture'[t][k] = capture[t][k]
                  /\ proof'[t][k] = proof[t][k],
           H!Matches(s, g)',
           capture[s][g] = "released" => capture'[s][g] = "released",
           \A b \in H!Actors : b # a => job'[b] = job[b],
           \/ /\ job'[a].slot = s /\ job'[a].gen = g /\ cmd' = cmd /\ cleaner' = cleaner
              /\ job'[a].stage \in {"locked", "deleting"} /\ (H!Removing(a) \/ ~H!Busy(s, g))
              /\ job'[a].stage = "deleting" =>
                    /\ capture'[s][g] = "pending"
                    /\ proof'[s][g] \in {"none", "opened", "marked", "taken", "emptied"}
           \/ \E gone \in BOOLEAN : H!Finish(a, gone) /\ (gone => capture'[s][g] = "released")
    PROVE  H!HomesInv'
<1>j. /\ s \in Slots /\ g \in H!Gens /\ g = entry[s].gen
      /\ a \in Slots => cmd[a].pc = "removing" /\ s = a /\ g = cmd[a].gen
      /\ a = H!Cleaner => cleaner.pc = "cleaning"
      /\ a # H!Cleaner => a \in Slots
  BY JobKnown
<1>i. H!TypeOK /\ H!FilesMatch /\ H!InTurn /\ H!CommandsKnown /\ H!CleanupKnown /\ H!OneRemoval
      /\ H!ReleasedWithProof
  BY DEF H!HomesInv
<1>r. \A t \in Slots, k \in H!Gens :
         capture[t][k] = "released" => capture'[t][k] = "released"
  OBVIOUS
<1>g. \A t \in Slots : entry[t].gen \in 0 .. MaxGen
  BY <1>i DEF H!TypeOK, H!EntryStates
<1>e. H!Entries' = H!Entries /\ \A t \in H!Entries : t \in Slots /\ entry[t].gen \in H!Gens
  BY <1>g, <1>i DEF H!Entries, H!InTurn, H!Gens
<1>f. ASSUME NEW gone \in BOOLEAN, H!Finish(a, gone)
      PROVE  /\ job'[a] = H!NoJob
             /\ a = H!Cleaner => cleaner'.pc = cleaner.pc /\ cleaner'.todo = cleaner.todo
                              /\ cleaner'.kept = IF gone THEN cleaner.kept
                                                ELSE cleaner.kept \union {s}
             /\ a # H!Cleaner => cmd'[a].pc = "removed" /\ cmd'[a].gone = gone
                              /\ cmd'[a].gen = g
  <2>1. job'[a] = H!NoJob
    BY <1>f, <1>i DEF H!Finish, H!TypeOK
  <2>2. CASE a = H!Cleaner
    BY <2>1, <2>2, <1>f, <1>i DEF H!Finish, H!TypeOK
  <2>3. CASE a # H!Cleaner
    <3>1. cmd' = [cmd EXCEPT ![a].pc = "removed", ![a].gone = gone]
      BY <2>3, <1>f DEF H!Finish
    <3>2. a \in Slots /\ cmd[a].gen = g
      BY <2>3, <1>j
    <3>3. QED
      BY <2>1, <2>3, <3>1, <3>2, <1>i DEF H!TypeOK
  <2>4. QED
    BY <2>2, <2>3
<1>1. H!FilesMatch'
  BY <1>i DEF H!FilesMatch, H!Matches
<1>2. H!InTurn'
  BY <1>i, <1>j, <1>r DEF H!InTurn
<1>3. H!ReleasedWithProof'
  <2> SUFFICES ASSUME NEW t \in Slots, entry[t].state = "released"
               PROVE  capture'[t][entry[t].gen] = "released"
    BY DEF H!ReleasedWithProof
  <2>1. entry[t].gen \in H!Gens
    BY <1>g, <1>i DEF H!InTurn, H!Gens
  <2>2. QED
    BY <2>1, <1>r, <1>i DEF H!ReleasedWithProof
<1>4. H!CommandsKnown'
  <2> SUFFICES ASSUME NEW t \in Slots
               PROVE  /\ cmd'[t].pc # "idle" => /\ cmd'[t].gen = entry[t].gen
                                               /\ cmd'[t].gen \in H!Gens
                      /\ cmd'[t].pc = "removed" /\ cmd'[t].gone
                         => capture'[t][cmd'[t].gen] = "released"
                      /\ job'[t].stage # "none" =>
                            cmd'[t].pc = "removing" /\ job'[t].slot = t
                            /\ job'[t].gen = cmd'[t].gen
    BY DEF H!CommandsKnown
  <2>1. CASE cmd'[t] = cmd[t] /\ job'[t] = job[t]
    BY <2>1, <1>i, <1>r DEF H!CommandsKnown
  <2>2. CASE t = a /\ cmd'[t] = cmd[t] /\ job'[t].slot = s /\ job'[t].gen = g
    <3>1. /\ cmd[t].pc = "removing" /\ s = t /\ g = cmd[t].gen /\ a \in Slots
          /\ g = entry[t].gen /\ g \in H!Gens
      BY <2>2, <1>j
    <3>2. entry'[t].gen = entry[t].gen
      OBVIOUS
    <3>3. QED
      BY <2>2, <3>1, <3>2
  <2>3. CASE t = a /\ \E gone \in BOOLEAN :
                         H!Finish(a, gone) /\ (gone => capture'[s][g] = "released")
    <3>1. PICK gone \in BOOLEAN : H!Finish(a, gone) /\ (gone => capture'[s][g] = "released")
      BY <2>3
    <3>2. a # H!Cleaner
      BY <2>3, PartsAssumption DEF H!HomesConstants, H!Cleaner
    <3>3. /\ job'[t].stage = "none"
          /\ cmd'[t].pc = "removed" /\ cmd'[t].gone = gone /\ cmd'[t].gen = g
      BY <3>1, <3>2, <2>3, <1>f DEF H!NoJob
    <3>4. s = t /\ g = entry[t].gen /\ g \in H!Gens
      BY <3>2, <2>3, <1>j
    <3>5. entry'[t].gen = entry[t].gen
      OBVIOUS
    <3>6. QED
      BY <3>1, <3>3, <3>4, <3>5
  <2>4. t # a => cmd'[t] = cmd[t] /\ job'[t] = job[t]
    BY <1>i DEF H!Finish, H!TypeOK, H!Actors
  <2>5. QED
    BY <2>1, <2>2, <2>3, <2>4
<1>5. H!CleanupKnown'
  <2>1. CASE a # H!Cleaner
    <3>1. cleaner' = cleaner /\ job'[H!Cleaner] = job[H!Cleaner]
      BY <2>1 DEF H!Finish, H!Actors
    <3>2. QED
      BY <3>1, <1>i, <1>r, <1>g DEF H!CleanupKnown, H!Entries, H!InTurn, H!Gens
  <2>2. CASE a = H!Cleaner /\ cleaner' = cleaner /\ job'[a].slot = s /\ job'[a].gen = g
             /\ job'[a].stage # "none"
    <3>1. job'[H!Cleaner].slot = s /\ job'[H!Cleaner].gen = g /\ cleaner'.pc = "cleaning"
          /\ job[H!Cleaner].slot = s /\ job'[H!Cleaner].stage # "none"
      BY <2>2, <1>j
    <3>2. cleaner'.todo \subseteq H!Entries'
      BY <2>2, <1>j, <1>e, <1>i DEF H!CleanupKnown
    <3>3. ASSUME NEW t \in H!Entries', t \notin cleaner'.todo \union cleaner'.kept, t # s
          PROVE  capture'[t][entry'[t].gen] = "released"
      BY <3>1, <3>3, <2>2, <1>i, <1>j, <1>r, <1>e DEF H!CleanupKnown
    <3>4. QED
      BY <3>1, <3>2, <3>3, <1>j DEF H!CleanupKnown
  <2>3. CASE a = H!Cleaner /\ \E gone \in BOOLEAN :
                               H!Finish(a, gone) /\ (gone => capture'[s][g] = "released")
    <3>1. PICK gone \in BOOLEAN : H!Finish(a, gone) /\ (gone => capture'[s][g] = "released")
      BY <2>3
    <3>2. job'[H!Cleaner].stage = "none" /\ cleaner'.todo = cleaner.todo
          /\ cleaner'.kept = IF gone THEN cleaner.kept ELSE cleaner.kept \union {s}
      BY <3>1, <2>3, <1>f DEF H!NoJob
    <3>3. cleaner'.todo \subseteq H!Entries'
      BY <3>2, <2>3, <1>e, <1>i, <1>j DEF H!CleanupKnown
    <3>4. ASSUME NEW t \in H!Entries', t \notin cleaner'.todo \union cleaner'.kept
          PROVE  capture'[t][entry'[t].gen] = "released"
      <4>1. t \in H!Entries \ (cleaner.todo \union cleaner.kept) /\ entry[t].gen \in H!Gens
            /\ t \in Slots
        BY <3>2, <3>4, <1>e
      <4>2. CASE t = s
        BY <4>2, <3>1, <3>2, <3>4, <1>j
      <4>3. CASE t # s
        BY <4>1, <4>3, <2>3, <1>i, <1>j, <1>r DEF H!CleanupKnown
      <4>4. QED
        BY <4>2, <4>3
    <3>5. QED
      BY <3>2, <3>3, <3>4 DEF H!CleanupKnown
  <2>4. QED
    BY <2>1, <2>2, <2>3
<1>6. H!OneRemoval'
  <2>1. job'[a].stage = "none" \/
           (job'[a].slot = s /\ job'[a].gen = g /\ (H!Removing(a) \/ ~H!Busy(s, g)))
    BY <1>i DEF H!Finish, H!NoJob, H!TypeOK
  <2>2. \A b \in H!Actors : b # a /\ H!Removing(b) /\ job[b].slot = s /\ job[b].gen = g
           => ~H!Removing(a) /\ H!Busy(s, g)
    BY <1>i DEF H!OneRemoval, H!Busy, H!Removing
  <2>3. \A b, c \in H!Actors :
          H!Removing(b)' /\ H!Removing(c)' /\ job'[b].slot = job'[c].slot
          /\ job'[b].gen = job'[c].gen
              => b = c
    BY <2>1, <2>2, <1>i DEF H!OneRemoval, H!Removing
  <2>4. ASSUME NEW b \in H!Actors, job'[b].stage = "deleting"
        PROVE  /\ H!Of(capture, b)' = "pending"
               /\ H!Of(proof, b)' \in {"none", "opened", "marked", "taken", "emptied"}
    <3>1. CASE b = a
      BY <3>1, <2>1, <2>4, <1>i DEF H!Of, H!Finish, H!NoJob, H!TypeOK
    <3>2. CASE b # a
      <4>1. job[b].stage = "deleting" /\ job'[b] = job[b] /\ H!Removing(b)
        BY <3>2, <2>4 DEF H!Removing
      <4>2. job[b].slot \in Slots /\ job[b].gen \in H!Gens
        BY <4>1, JobKnown
      <4>3. job[b].slot # s \/ job[b].gen # g \/ ~H!Removing(a)
        BY <4>1, <3>2, <2>2
      <4>4. QED
        BY <4>1, <4>2, <4>3, <1>i DEF H!OneRemoval, H!Of
    <3>3. QED
      BY <3>1, <3>2
  <2>5. QED
    BY <2>3, <2>4 DEF H!OneRemoval
<1>7. QED
  BY <1>1, <1>2, <1>3, <1>4, <1>5, <1>6 DEF H!HomesInv

\* Each step of a removal keeps the invariant.
LEMMA HomeRemoveInv ==
    ASSUME H!HomesInv, NEW a \in H!Actors, H!Remove(a) \/ H!BrokerFails(a)
    PROVE  H!HomesInv'
<1>0. job[a].stage # "none"
  BY DEF H!Remove, H!LockCapture, H!BeginCapture, H!CallBroker, H!Delete, H!Proceed,
       H!EndRemoval, H!BrokerFails
<1>p. PICK s, g : s = job[a].slot /\ g = job[a].gen
  OBVIOUS
<1>j. /\ s \in Slots /\ g \in H!Gens
      /\ a # H!Cleaner => a \in Slots
  BY <1>0, <1>p, JobKnown
<1>i. H!TypeOK /\ H!Matches(s, g) /\ H!OneRemoval
  BY <1>j DEF H!HomesInv, H!FilesMatch
<1>t. /\ homes \in [Slots -> [H!Gens -> H!Homes]]
      /\ capture \in [Slots -> [H!Gens -> H!Captures]]
      /\ proof \in [Slots -> [H!Gens -> H!Proofs]]
      /\ entry' = entry
  BY <1>i DEF H!TypeOK, H!Remove, H!LockCapture, H!BeginCapture, H!CallBroker, H!Delete,
       H!Proceed,
     H!EndRemoval, H!BrokerFails
\* The record of the removal, who asked for it, and what is left of the type.
<1>f. ASSUME NEW gone \in BOOLEAN, H!Finish(a, gone)
      PROVE  /\ job' \in [H!Actors -> H!Jobs]
             /\ cmd' \in [Slots -> H!Commands]
             /\ cleaner' \in [pc : {"idle", "cleaning"}, todo : SUBSET Slots,
                              kept : SUBSET Slots]
             /\ \A b \in H!Actors : b # a => job'[b] = job[b]
  <2>1. /\ job' \in [H!Actors -> H!Jobs]
        /\ \A b \in H!Actors : b # a => job'[b] = job[b]
    BY <1>f, <1>i, PartsAssumption DEF H!Finish, H!NoJob, H!TypeOK, H!HomesConstants, H!Jobs
  <2>2. CASE a = H!Cleaner
    <3>1. /\ cmd' = cmd
          /\ cleaner' = [cleaner EXCEPT !.kept = IF gone THEN @ ELSE @ \union {s}]
      BY <2>2, <1>f, <1>p DEF H!Finish
    <3>2. QED
      BY <2>1, <3>1, <1>j, <1>i DEF H!TypeOK
  <2>3. CASE a # H!Cleaner
    <3>1. /\ cleaner' = cleaner
          /\ cmd' = [cmd EXCEPT ![a].pc = "removed", ![a].gone = gone]
      BY <2>3, <1>f DEF H!Finish
    <3>2. a \in Slots /\ cmd \in [Slots -> H!Commands]
      BY <2>3, <1>j, <1>i DEF H!TypeOK, H!Commands
    <3>3. cmd[a] \in H!Commands /\ DOMAIN cmd = Slots
      BY <3>2
    <3>4. cmd'[a] = [cmd[a] EXCEPT !.pc = "removed", !.gone = gone]
      BY <3>1, <3>2
    <3>5. cmd'[a] \in H!Commands
      BY <1>f, <3>3, <3>4 DEF H!Commands
    <3>6. cmd' = [cmd EXCEPT ![a] = cmd'[a]]
      BY <3>1, <3>2
    <3>7. cmd' \in [Slots -> H!Commands]
      BY <3>2, <3>5, <3>6
    <3>8. QED
      BY <2>1, <3>1, <3>7, <1>i DEF H!TypeOK, H!Commands
  <2>4. QED
    BY <2>2, <2>3
<1>s. ASSUME NEW st \in {"locked", "deleting"},
             H!Stage(a, st) \/ (UNCHANGED job /\ st = job[a].stage),
             H!Going(a)
      PROVE  /\ job' \in [H!Actors -> H!Jobs]
             /\ cmd' = cmd /\ cleaner' = cleaner
             /\ job'[a].slot = s /\ job'[a].gen = g /\ job'[a].stage = st
             /\ \A b \in H!Actors : b # a => job'[b] = job[b]
  <2>1. CASE job' = job /\ st = job[a].stage
    BY <2>1, <1>s, <1>p, <1>i DEF H!Going, H!TypeOK
  <2>2. CASE H!Stage(a, st)
    BY <2>2, <1>s, <1>p, <1>i DEF H!Stage, H!Going, H!TypeOK, H!Jobs
  <2>3. QED
    BY <1>s, <2>1, <2>2
<1>h. \A v \in H!Homes :
         homes' = [homes EXCEPT ![s][g] = v] =>
            /\ homes' \in [Slots -> [H!Gens -> H!Homes]]
            /\ homes'[s][g] = v
            /\ \A t \in Slots, k \in H!Gens : t # s \/ k # g => homes'[t][k] = homes[t][k]
  BY <1>j, <1>t
<1>c. \A v \in H!Captures :
         capture' = [capture EXCEPT ![s][g] = v] =>
            /\ capture' \in [Slots -> [H!Gens -> H!Captures]]
            /\ capture'[s][g] = v
            /\ \A t \in Slots, k \in H!Gens : t # s \/ k # g => capture'[t][k] = capture[t][k]
  BY <1>j, <1>t
<1>q. \A v \in H!Proofs :
         proof' = [proof EXCEPT ![s][g] = v] =>
            /\ proof' \in [Slots -> [H!Gens -> H!Proofs]]
            /\ proof'[s][g] = v
            /\ \A t \in Slots, k \in H!Gens : t # s \/ k # g => proof'[t][k] = proof[t][k]
  BY <1>j, <1>t
\* The two ways in which a step of a removal ends.
<1>g. ASSUME H!TypeOK', H!Matches(s, g)', NEW st \in {"locked", "deleting"},
             H!Stage(a, st) \/ (UNCHANGED job /\ st = job[a].stage), H!Going(a),
             H!Removing(a) \/ (~H!Busy(s, g) /\ UNCHANGED H!disk),
             \A t \in Slots, k \in H!Gens : t # s \/ k # g =>
                  homes'[t][k] = homes[t][k] /\ capture'[t][k] = capture[t][k]
                  /\ proof'[t][k] = proof[t][k],
             capture[s][g] = "released" => capture'[s][g] = "released",
             st = "deleting" =>
                  /\ capture'[s][g] = "pending"
                  /\ proof'[s][g] \in {"none", "opened", "marked", "taken", "emptied"}
      PROVE  H!HomesInv'
  <2>1. /\ cmd' = cmd /\ cleaner' = cleaner
        /\ job'[a].slot = s /\ job'[a].gen = g /\ job'[a].stage = st
        /\ \A b \in H!Actors : b # a => job'[b] = job[b]
    BY <1>s, <1>g
  <2>2. QED
    BY <1>0, <1>p, <1>t, <1>g, <2>1, RemovalInv DEF H!disk
<1>e. ASSUME H!TypeOK', H!Matches(s, g)',
             NEW gone \in BOOLEAN, H!Finish(a, gone), H!Removing(a),
             \A t \in Slots, k \in H!Gens : t # s \/ k # g =>
                  homes'[t][k] = homes[t][k] /\ capture'[t][k] = capture[t][k]
                  /\ proof'[t][k] = proof[t][k],
             capture[s][g] = "released" \/ gone => capture'[s][g] = "released"
      PROVE  H!HomesInv'
  BY <1>0, <1>p, <1>t, <1>e, <1>f, RemovalInv
<1>1. CASE H!LockCapture(a)
  <2>1. /\ ~H!Busy(s, g) /\ H!Stage(a, "locked") /\ H!Going(a)
        /\ homes' = homes /\ capture' = capture /\ proof' = proof /\ faults' = faults
    BY <1>1, <1>p DEF H!LockCapture, H!disk
  <2>2. H!TypeOK'
    BY <2>1, <1>s, <1>t, <1>i DEF H!TypeOK
  <2>3. H!Matches(s, g)'
    BY <2>1, <1>i DEF H!Matches
  <2>4. QED
    BY <2>1, <2>2, <2>3, <1>g DEF H!disk
<1>2. CASE H!BeginCapture(a)
  <2>1. /\ job[a].stage = "locked" /\ capture[s][g] = "none"
        /\ homes' = homes /\ proof' = proof /\ faults' = faults
        /\ \/ /\ capture' = [capture EXCEPT ![s][g] = "pending"]
              /\ job' = job /\ H!Going(a)
           \/ H!Finish(a, FALSE) /\ capture' = capture
    BY <1>2, <1>p DEF H!BeginCapture, H!Of, H!Advance
  <2>2. CASE capture' = [capture EXCEPT ![s][g] = "pending"] /\ job' = job /\ H!Going(a)
    <3>1. capture'[s][g] = "pending" /\ (\A t \in Slots, k \in H!Gens :
            t # s \/ k # g => capture'[t][k] = capture[t][k])
      BY <2>2, <1>j, <1>t, <1>h, <1>c, <1>q DEF H!Homes, H!Captures, H!Proofs
    <3>2. H!TypeOK'
      BY <2>1, <2>2, <1>j, <1>s, <1>t, <1>i, <1>h, <1>c, <1>q
         DEF H!TypeOK, H!Homes, H!Captures, H!Proofs
    <3>3. H!Matches(s, g)'
      BY <2>1, <3>1, <1>i DEF H!Matches
    <3>4. QED
      BY <2>1, <2>2, <3>1, <3>2, <3>3, <1>g DEF H!Removing
  <2>3. CASE H!Finish(a, FALSE) /\ capture' = capture
    <3>1. H!TypeOK'
      BY <2>1, <2>3, <1>f, <1>t, <1>i DEF H!TypeOK
    <3>2. H!Matches(s, g)'
      BY <2>1, <2>3, <1>i DEF H!Matches
    <3>3. QED
      BY <2>1, <2>3, <3>1, <3>2, <1>e DEF H!Removing
  <2>4. QED
    BY <2>1, <2>2, <2>3
<1>3. CASE H!CallBroker(a)
  <2>1. /\ job[a].stage = "locked" /\ capture[s][g] = "pending"
        /\ homes' = homes /\ capture' = capture /\ faults' = faults
        /\ \/ /\ proof[s][g] \in {"none", "marked", "taken"}
              /\ H!Stage(a, "deleting") /\ H!Going(a) /\ proof' = proof
           \/ H!Finish(a, FALSE) /\ proof' = proof
           \/ /\ proof[s][g] = "emptied" /\ H!Finish(a, FALSE)
              /\ proof' = [proof EXCEPT ![s][g] = "retained"]
    BY <1>3, <1>p DEF H!CallBroker, H!Of, H!Advance
  <2>2. CASE /\ proof[s][g] \in {"none", "marked", "taken"}
             /\ H!Stage(a, "deleting") /\ H!Going(a) /\ proof' = proof
    <3>1. H!TypeOK'
      BY <2>1, <2>2, <1>s, <1>t, <1>i DEF H!TypeOK
    <3>2. H!Matches(s, g)'
      BY <2>1, <2>2, <1>i DEF H!Matches
    <3>3. QED
      BY <2>1, <2>2, <3>1, <3>2, <1>g DEF H!Removing
  <2>3. CASE H!Finish(a, FALSE) /\ proof' = proof
    <3>1. H!TypeOK'
      BY <2>1, <2>3, <1>f, <1>t, <1>i DEF H!TypeOK
    <3>2. H!Matches(s, g)'
      BY <2>1, <2>3, <1>i DEF H!Matches
    <3>3. QED
      BY <2>1, <2>3, <3>1, <3>2, <1>e DEF H!Removing
  <2>4. CASE /\ proof[s][g] = "emptied" /\ H!Finish(a, FALSE)
             /\ proof' = [proof EXCEPT ![s][g] = "retained"]
    <3>1. proof'[s][g] = "retained" /\ (\A t \in Slots, k \in H!Gens :
            t # s \/ k # g => proof'[t][k] = proof[t][k])
      BY <2>4, <1>j, <1>t, <1>h, <1>c, <1>q DEF H!Homes, H!Captures, H!Proofs
    <3>2. H!TypeOK'
      BY <2>1, <2>4, <1>j, <1>f, <1>t, <1>i, <1>h, <1>c, <1>q
         DEF H!TypeOK, H!Homes, H!Captures, H!Proofs
    <3>3. H!Matches(s, g)'
      BY <2>1, <2>4, <3>1, <1>i DEF H!Matches
    <3>4. QED
      BY <2>1, <2>4, <3>1, <3>2, <3>3, <1>e DEF H!Removing
  <2>5. QED
    BY <2>1, <2>2, <2>3, <2>4
<1>4. CASE H!Delete(a)
  <2>1. /\ job[a].stage = "deleting" /\ capture[s][g] = "pending"
        /\ proof[s][g] \in {"none", "opened", "marked", "taken", "emptied"}
        /\ capture' = capture /\ faults' = faults /\ H!Going(a)
    BY <1>4, <1>p, <1>i DEF H!Delete, H!OneRemoval, H!Of
  <2>2. /\ \/ proof[s][g] = "none" /\ proof' = [proof EXCEPT ![s][g] = "opened"]
           \/ proof[s][g] = "opened" /\ proof' = [proof EXCEPT ![s][g] = "marked"]
           \/ proof[s][g] = "marked" /\ proof' = [proof EXCEPT ![s][g] = "taken"]
           \/ proof[s][g] = "taken" /\ proof' = [proof EXCEPT ![s][g] = "emptied"]
           \/ proof[s][g] = "emptied" /\ proof' = [proof EXCEPT ![s][g] = "cleaned"]
        /\ \/ proof[s][g] = "marked" /\ homes' = [homes EXCEPT ![s][g] = "captured"]
           \/ proof[s][g] = "taken" /\ homes' = [homes EXCEPT ![s][g] = "gone"]
           \/ proof[s][g] \in {"none", "opened", "emptied"} /\ homes' = homes
        /\ \/ proof[s][g] = "emptied" /\ H!Stage(a, "locked")
           \/ proof[s][g] # "emptied" /\ H!Stage(a, "deleting")
    <3>1. /\ proof' = [proof EXCEPT ![s][g] =
                 [none |-> "opened", opened |-> "marked", marked |-> "taken",
                  taken |-> "emptied", emptied |-> "cleaned"][proof[s][g]]]
          /\ homes' = CASE proof[s][g] = "marked" -> [homes EXCEPT ![s][g] = "captured"]
                       [] proof[s][g] = "taken"  -> [homes EXCEPT ![s][g] = "gone"]
                       [] OTHER                  -> homes
          /\ H!Stage(a, IF proof[s][g] = "emptied" THEN "locked" ELSE "deleting")
      BY <1>4, <1>p DEF H!Delete, H!Of, H!Advance
    <3>2. CASE proof[s][g] = "none"
      BY <3>1, <3>2
    <3>3. CASE proof[s][g] = "opened"
      BY <3>1, <3>3
    <3>4. CASE proof[s][g] = "marked"
      BY <3>1, <3>4
    <3>5. CASE proof[s][g] = "taken"
      BY <3>1, <3>5
    <3>6. CASE proof[s][g] = "emptied"
      BY <3>1, <3>6
    <3>7. QED
      BY <2>1, <3>2, <3>3, <3>4, <3>5, <3>6
  <2>3. /\ \/ proof[s][g] = "none" /\ proof'[s][g] = "opened"
           \/ proof[s][g] = "opened" /\ proof'[s][g] = "marked"
           \/ proof[s][g] = "marked" /\ proof'[s][g] = "taken"
           \/ proof[s][g] = "taken" /\ proof'[s][g] = "emptied"
           \/ proof[s][g] = "emptied" /\ proof'[s][g] = "cleaned"
        /\ proof' \in [Slots -> [H!Gens -> H!Proofs]]
        /\ \A t \in Slots, k \in H!Gens : t # s \/ k # g => proof'[t][k] = proof[t][k]
    BY <2>2, <1>j, <1>t, <1>h, <1>c, <1>q DEF H!Homes, H!Captures, H!Proofs
  <2>4. /\ \/ proof[s][g] = "marked" /\ homes'[s][g] = "captured"
           \/ proof[s][g] = "taken" /\ homes'[s][g] = "gone"
           \/ proof[s][g] \in {"none", "opened", "emptied"} /\ homes'[s][g] = homes[s][g]
        /\ homes' \in [Slots -> [H!Gens -> H!Homes]]
        /\ \A t \in Slots, k \in H!Gens : t # s \/ k # g => homes'[t][k] = homes[t][k]
    BY <2>2, <1>j, <1>t, <1>h, <1>c, <1>q DEF H!Homes, H!Captures, H!Proofs
  <2>5. H!TypeOK'
    BY <2>1, <2>2, <2>3, <2>4, <1>s, <1>t, <1>i DEF H!TypeOK
  <2>6. H!Matches(s, g)'
    BY <2>1, <2>3, <2>4, <1>i DEF H!Matches
  <2>7. CASE proof[s][g] = "emptied" /\ H!Stage(a, "locked")
    BY <2>1, <2>3, <2>4, <2>5, <2>6, <2>7, <1>g DEF H!Removing
  <2>8. CASE proof[s][g] # "emptied" /\ H!Stage(a, "deleting")
    BY <2>1, <2>3, <2>4, <2>5, <2>6, <2>8, <1>g DEF H!Removing
  <2>9. QED
    BY <2>2, <2>7, <2>8
<1>5. CASE H!Proceed(a)
  <2>1. /\ job[a].stage = "locked" /\ homes' = homes /\ job' = job /\ faults' = faults
        /\ H!Going(a)
        /\ \/ /\ capture[s][g] = "pending" /\ proof[s][g] = "cleaned" /\ proof' = proof
              /\ capture' = [capture EXCEPT ![s][g] = "captured-cleaned"]
           \/ /\ capture[s][g] = "captured-cleaned" /\ proof[s][g] = "cleaned"
              /\ proof' = [proof EXCEPT ![s][g] = "finalized"] /\ capture' = capture
           \/ /\ capture[s][g] = "captured-cleaned" /\ proof[s][g] = "finalized"
              /\ capture' = [capture EXCEPT ![s][g] = "finalized"] /\ proof' = proof
           \/ /\ capture[s][g] = "finalized" /\ proof[s][g] = "finalized"
              /\ proof' = [proof EXCEPT ![s][g] = "dropped"] /\ capture' = capture
           \/ /\ capture[s][g] = "finalized" /\ proof[s][g] = "dropped"
              /\ capture' = [capture EXCEPT ![s][g] = "released"] /\ proof' = proof
    BY <1>5, <1>p DEF H!Proceed, H!Of, H!Advance
  <2>2. /\ capture' \in [Slots -> [H!Gens -> H!Captures]]
        /\ proof' \in [Slots -> [H!Gens -> H!Proofs]]
        /\ \A t \in Slots, k \in H!Gens : t # s \/ k # g =>
              proof'[t][k] = proof[t][k] /\ capture'[t][k] = capture[t][k]
    BY <2>1, <1>j, <1>t, <1>h, <1>c, <1>q DEF H!Homes, H!Captures, H!Proofs
  <2>3. /\ capture[s][g] # "released"
        /\ \/ capture'[s][g] = "captured-cleaned" /\ proof'[s][g] \in {"cleaned", "finalized"}
           \/ capture'[s][g] = "finalized" /\ proof'[s][g] \in {"finalized", "dropped"}
           \/ capture'[s][g] = "released" /\ proof'[s][g] = "dropped"
    BY <2>1, <1>j, <1>t, <1>h, <1>c, <1>q DEF H!Homes, H!Captures, H!Proofs
  <2>4. H!TypeOK'
    BY <2>1, <2>2, <1>s, <1>t, <1>i DEF H!TypeOK
  <2>5. H!Matches(s, g)'
    BY <2>1, <2>3, <1>i DEF H!Matches
  <2>6. QED
    BY <2>1, <2>2, <2>3, <2>4, <2>5, <1>g DEF H!Removing
<1>6. CASE H!EndRemoval(a)
  <2>1. job[a].stage = "locked" /\ \E gone \in BOOLEAN : H!Finish(a, gone)
    BY <1>6 DEF H!EndRemoval
  <2>2. /\ capture[s][g] = "released" /\ faults' = faults
        /\ homes' = homes /\ capture' = capture /\ proof' = proof
    BY <1>6, <1>p DEF H!EndRemoval, H!Of, H!disk
  <2>3. H!TypeOK'
    BY <2>1, <2>2, <1>f, <1>t, <1>i DEF H!TypeOK
  <2>4. H!Matches(s, g)'
    BY <2>2, <1>i DEF H!Matches
  <2>5. QED
    BY <2>1, <2>2, <2>3, <2>4, <1>e DEF H!Removing
<1>7. CASE H!BrokerFails(a)
  <2>1. /\ job[a].stage = "deleting" /\ capture[s][g] = "pending" /\ capture' = capture
        /\ faults' = faults + 1 /\ faults < MaxFaults /\ H!Finish(a, FALSE)
        /\ \/ homes' = homes /\ proof' = proof
           \/ /\ proof[s][g] \in {"marked", "taken"}
              /\ proof' = [proof EXCEPT ![s][g] = "retained"]
              /\ homes' = homes \/ homes' = [homes EXCEPT ![s][g] = "present"]
    BY <1>7, <1>p, <1>i DEF H!BrokerFails, H!OneRemoval, H!Of, H!Advance
  <2>2. /\ proof' \in [Slots -> [H!Gens -> H!Proofs]]
        /\ homes' \in [Slots -> [H!Gens -> H!Homes]]
        /\ \A t \in Slots, k \in H!Gens : t # s \/ k # g =>
              proof'[t][k] = proof[t][k] /\ homes'[t][k] = homes[t][k]
    BY <2>1, <1>j, <1>t, <1>h, <1>c, <1>q DEF H!Homes, H!Captures, H!Proofs
  <2>3. \/ homes'[s][g] = homes[s][g] /\ proof'[s][g] = proof[s][g]
        \/ proof'[s][g] = "retained"
    BY <2>1, <1>j, <1>t, <1>h, <1>c, <1>q DEF H!Homes, H!Captures, H!Proofs
  <2>4. faults' \in 0 .. MaxFaults
    BY <2>1, <1>i, PartsAssumption DEF H!TypeOK, H!HomesConstants
  <2>5. H!TypeOK'
    BY <2>1, <2>2, <2>4, <1>f, <1>t, <1>i DEF H!TypeOK
  <2>6. H!Matches(s, g)'
    BY <2>1, <2>3, <1>i DEF H!Matches
  <2>7. QED
    BY <2>1, <2>2, <2>3, <2>5, <2>6, <1>e DEF H!Removing
<1>8. QED
  BY <1>1, <1>2, <1>3, <1>4, <1>5, <1>6, <1>7 DEF H!Remove

\* What the steps of a command leave alone of the removals.
LEMMA FilesKept ==
    ASSUME H!HomesInv, capture' = capture, proof' = proof,
           \A a \in H!Actors : job'[a] = job[a] \/ job'[a].stage \notin {"locked", "deleting"}
    PROVE  H!OneRemoval'
<1>1. \A a \in H!Actors : H!Removing(a)' => H!Removing(a) /\ job'[a] = job[a]
  BY DEF H!Removing
<1>2. \A a \in H!Actors :
         job'[a].stage = "deleting" => job[a].stage = "deleting" /\ job'[a] = job[a]
  OBVIOUS
<1>3. QED
  BY <1>1, <1>2 DEF H!HomesInv, H!OneRemoval, H!Of

\* Each step of a command keeps the invariant.
LEMMA HomeCommandInv ==
    ASSUME H!HomesInv, NEW s \in Slots, H!Reserve(s) \/ H!Command(s)
    PROVE  H!HomesInv'
<1>i. H!TypeOK /\ H!FilesMatch /\ H!InTurn /\ H!CommandsKnown /\ H!CleanupKnown /\ H!OneRemoval
      /\ H!ReleasedWithProof
  BY DEF H!HomesInv
<1>c. MaxGen \in Nat /\ H!Cleaner \notin Slots /\ H!Actors = Slots \union {H!Cleaner}
  BY PartsAssumption DEF H!HomesConstants, H!Cleaner, H!Actors
<1>e. /\ entry[s] \in H!EntryStates /\ entry[s].gen \in 0 .. MaxGen
      /\ cmd[s] \in H!Commands /\ \A t \in Slots : entry[t].gen \in 0 .. MaxGen
  BY <1>i DEF H!TypeOK, H!EntryStates
<1>1. CASE H!Reserve(s)
  <2>1. /\ cmd[s].pc = "idle" /\ cleaner.pc = "idle" /\ job[s].stage = "none"
        /\ job[H!Cleaner].stage = "none"
        /\ homes' = homes /\ capture' = capture /\ proof' = proof /\ job' = job
        /\ cleaner' = cleaner /\ faults' = faults
    BY <1>1, <1>i DEF H!Reserve, H!Unlocked, H!disk, H!CommandsKnown, H!CleanupKnown
  <2>2. CASE entry' = entry /\ entry[s].gen \in H!Gens /\ cmd'[s].gen = entry[s].gen
             /\ cmd' = [cmd EXCEPT ![s] =
                            [pc |-> "create", gen |-> entry[s].gen, gone |-> FALSE]]
    <3>1. H!TypeOK'
      BY <2>1, <2>2, <1>e, <1>i DEF H!TypeOK, H!Commands
    <3>2. H!CommandsKnown'
      BY <2>1, <2>2, <1>e, <1>i DEF H!CommandsKnown, H!TypeOK
    <3>3. QED
      BY <2>1, <2>2, <3>1, <3>2, <1>i, FilesKept DEF H!HomesInv, H!FilesMatch, H!Matches,
           H!InTurn,
         H!CleanupKnown, H!Entries, H!ReleasedWithProof
  <2>3. CASE /\ entry[s].state \in {"none", "released"} /\ entry[s].gen < MaxGen
             /\ entry' = [entry EXCEPT ![s] =
                   [state |-> "reserved", gen |-> entry[s].gen + 1, lease |-> FALSE]]
             /\ cmd' = [cmd EXCEPT ![s] =
                   [pc |-> "create", gen |-> entry[s].gen + 1, gone |-> FALSE]]
    <3> DEFINE n == entry[s].gen + 1
    <3>0. n \in H!Gens /\ n \in 0 .. MaxGen
      BY <2>3, <1>e, <1>c DEF H!Gens
    <3>1. H!TypeOK'
      BY <2>1, <2>3, <3>0, <1>i DEF H!TypeOK, H!Commands, H!EntryStates
    <3>2. /\ entry'[s] = [state |-> "reserved", gen |-> n, lease |-> FALSE]
          /\ cmd'[s] = [pc |-> "create", gen |-> n, gone |-> FALSE]
          /\ \A t \in Slots : t # s => entry'[t] = entry[t] /\ cmd'[t] = cmd[t]
      BY <2>3, <1>i DEF H!TypeOK
    <3>3. H!CommandsKnown'
      BY <2>1, <3>0, <3>2, <1>i DEF H!CommandsKnown
    <3>4. H!InTurn'
      <4>1. \A g \in H!Gens : g < n => g < entry[s].gen \/ g = entry[s].gen
        BY <1>e, <1>c DEF H!Gens
      <4>2. \A g \in H!Gens : g > n => g > entry[s].gen
        BY <1>e, <1>c DEF H!Gens
      <4>3. entry[s].gen \in H!Gens => capture[s][entry[s].gen] = "released"
        BY <2>3, <1>i DEF H!InTurn, H!ReleasedWithProof, H!Gens
      <4>4. n # 0
        BY <1>e
      <4>5. QED
        BY <2>1, <3>2, <4>1, <4>2, <4>3, <4>4, <1>i DEF H!InTurn
    <3>5. H!ReleasedWithProof' /\ H!FilesMatch'
      BY <2>1, <3>2, <1>i DEF H!ReleasedWithProof, H!FilesMatch, H!Matches
    <3>6. H!CleanupKnown'
      BY <2>1, <1>i DEF H!CleanupKnown
    <3>7. QED
      BY <2>1, <3>1, <3>3, <3>4, <3>5, <3>6, FilesKept DEF H!HomesInv
  <2>4. QED
    <3>1. \/ /\ entry[s].state \in {"none", "released"} /\ entry[s].gen < MaxGen
             /\ entry' = [entry EXCEPT ![s] =
                   [state |-> "reserved", gen |-> entry[s].gen + 1, lease |-> FALSE]]
             /\ cmd' = [cmd EXCEPT ![s] =
                   [pc |-> "create", gen |-> entry[s].gen + 1, gone |-> FALSE]]
          \/ /\ entry' = entry /\ entry[s].state # "none"
             /\ cmd' = [cmd EXCEPT ![s] =
                            [pc |-> "create", gen |-> entry[s].gen, gone |-> FALSE]]
      BY <1>1 DEF H!Reserve, H!SetEntry, H!Idle
    <3>2. entry[s].state # "none" => entry[s].gen \in H!Gens
      BY <1>i, <1>e, <1>c DEF H!InTurn, H!Gens
    <3>3. cmd' = [cmd EXCEPT ![s] = [pc |-> "create", gen |-> entry[s].gen, gone |-> FALSE]]
          => cmd'[s].gen = entry[s].gen
      BY <1>i DEF H!TypeOK
    <3>4. QED
      BY <2>2, <2>3, <3>1, <3>2, <3>3
<1>2. CASE H!Create(s)
  <2>1. /\ cmd[s].pc = "create" /\ cmd' = [cmd EXCEPT ![s].pc = "lease"]
        /\ homes' = [homes EXCEPT ![s][cmd[s].gen] = "present"]
        /\ entry' = entry /\ capture' = capture /\ proof' = proof /\ job' = job
        /\ cleaner' = cleaner /\ faults' = faults
    BY <1>2 DEF H!Create, H!SetCmd
  <2>2. /\ cmd[s].gen \in H!Gens /\ cmd[s].gen = entry[s].gen /\ job[s].stage = "none"
    BY <2>1, <1>i DEF H!CommandsKnown
  <2>3. /\ homes' \in [Slots -> [H!Gens -> H!Homes]] /\ homes'[s][cmd[s].gen] = "present"
        /\ \A t \in Slots, g \in H!Gens :
              t # s \/ g # cmd[s].gen => homes'[t][g] = homes[t][g]
    BY <2>1, <2>2, <1>i DEF H!TypeOK, H!Homes
  <2>4. /\ cmd' \in [Slots -> H!Commands] /\ cmd'[s].gen = cmd[s].gen /\ cmd'[s].pc = "lease"
        /\ \A t \in Slots : t # s => cmd'[t] = cmd[t]
    BY <2>1, <1>i, <1>e DEF H!TypeOK, H!Commands
  <2>5. H!TypeOK'
    BY <2>1, <2>3, <2>4, <1>i DEF H!TypeOK
  <2>6. H!FilesMatch'
    BY <2>1, <2>3, <1>i DEF H!FilesMatch, H!Matches
  <2>7. H!InTurn'
    BY <2>1, <2>2, <2>3, <1>i, <1>e DEF H!InTurn, H!Gens
  <2>8. H!CommandsKnown'
    BY <2>1, <2>2, <2>4, <1>i DEF H!CommandsKnown
  <2>9. H!CleanupKnown' /\ H!ReleasedWithProof'
    BY <2>1, <1>i DEF H!CleanupKnown, H!Entries, H!ReleasedWithProof
  <2>10. QED
    BY <2>1, <2>5, <2>6, <2>7, <2>8, <2>9, FilesKept DEF H!HomesInv
<1>3. CASE H!Lease(s)
  <2>1. /\ cmd[s].pc = "lease" /\ cleaner.pc = "idle"
        /\ entry' = [entry EXCEPT ![s] =
                         [entry[s] EXCEPT !.state = "allocated", !.lease = TRUE]]
        /\ \E pc \in {"use", "idle"} : cmd' = [cmd EXCEPT ![s].pc = pc]
        /\ homes' = homes /\ capture' = capture /\ proof' = proof /\ job' = job
        /\ cleaner' = cleaner /\ faults' = faults
    BY <1>3 DEF H!Lease, H!SetEntry, H!SetCmd, H!Unlocked, H!disk
  <2>2. /\ cmd[s].gen \in H!Gens /\ cmd[s].gen = entry[s].gen /\ job[s].stage = "none"
        /\ job[H!Cleaner].stage = "none"
    BY <2>1, <1>i DEF H!CommandsKnown, H!CleanupKnown
  <2>3. /\ entry'[s].state = "allocated" /\ entry'[s].gen = entry[s].gen
        /\ entry'[s] \in H!EntryStates
        /\ cmd'[s].gen = cmd[s].gen /\ cmd'[s].pc \in {"use", "idle"} /\ cmd'[s] \in H!Commands
        /\ \A t \in Slots : t # s => entry'[t] = entry[t] /\ cmd'[t] = cmd[t]
    <3>1. entry'[s] = [entry[s] EXCEPT !.state = "allocated", !.lease = TRUE]
      BY <2>1, <1>i DEF H!TypeOK
    <3>2. \E pc \in {"use", "idle"} : cmd'[s] = [cmd[s] EXCEPT !.pc = pc]
      BY <2>1, <1>i DEF H!TypeOK
    <3>3. /\ entry'[s].state = "allocated" /\ entry'[s].gen = entry[s].gen
          /\ entry'[s] \in H!EntryStates
      BY <3>1, <1>e DEF H!EntryStates
    <3>4. cmd'[s].gen = cmd[s].gen /\ cmd'[s].pc \in {"use", "idle"} /\ cmd'[s] \in H!Commands
      BY <3>2, <1>e DEF H!Commands
    <3>5. \A t \in Slots : t # s => entry'[t] = entry[t] /\ cmd'[t] = cmd[t]
      BY <2>1, <1>i DEF H!TypeOK
    <3>6. QED
      BY <3>3, <3>4, <3>5
  <2>4. H!TypeOK'
    BY <2>1, <2>3, <1>i DEF H!TypeOK
  <2>5. H!InTurn' /\ H!ReleasedWithProof' /\ H!FilesMatch'
    BY <2>1, <2>2, <2>3, <1>i, <1>c DEF H!InTurn, H!ReleasedWithProof, H!FilesMatch,
         H!Matches, H!Gens
  <2>6. H!CommandsKnown' /\ H!CleanupKnown'
    BY <2>1, <2>2, <2>3, <1>i DEF H!CommandsKnown, H!CleanupKnown
  <2>7. QED
    BY <2>1, <2>4, <2>5, <2>6, FilesKept DEF H!HomesInv
<1>4. CASE H!StartRemoval(s)
  <2>1. /\ cmd[s].pc = "use" /\ cmd' = [cmd EXCEPT ![s].pc = "removing"]
        /\ job' = [job EXCEPT ![s] = [stage |-> "host", slot |-> s, gen |-> cmd[s].gen]]
        /\ homes' = homes /\ capture' = capture /\ proof' = proof /\ entry' = entry
        /\ cleaner' = cleaner /\ faults' = faults
    BY <1>4 DEF H!StartRemoval, H!SetCmd, H!disk
  <2>2. /\ cmd[s].gen \in H!Gens /\ cmd[s].gen = entry[s].gen
    BY <2>1, <1>i DEF H!CommandsKnown
  <2>3. /\ cmd'[s].gen = cmd[s].gen /\ cmd'[s].pc = "removing" /\ cmd'[s] \in H!Commands
        /\ \A t \in Slots : t # s => cmd'[t] = cmd[t]
    BY <2>1, <1>i, <1>e DEF H!TypeOK, H!Commands
  <2>4. /\ job'[s] = [stage |-> "host", slot |-> s, gen |-> cmd[s].gen] /\ job'[s] \in H!Jobs
        /\ \A a \in H!Actors : a # s => job'[a] = job[a]
    BY <2>1, <1>i, <1>e, <1>c DEF H!TypeOK, H!Jobs, H!Commands
  <2>5. H!TypeOK'
    BY <2>1, <2>3, <2>4, <1>i, <1>c DEF H!TypeOK
  <2>6. H!InTurn' /\ H!ReleasedWithProof' /\ H!FilesMatch'
    BY <2>1, <1>i DEF H!InTurn, H!ReleasedWithProof, H!FilesMatch, H!Matches
  <2>7. H!CommandsKnown'
    BY <2>1, <2>2, <2>3, <2>4, <1>i, <1>c DEF H!CommandsKnown
  <2>8. H!CleanupKnown'
    BY <2>1, <2>4, <1>i, <1>c DEF H!CleanupKnown, H!Entries
  <2>9. H!OneRemoval'
    BY <2>1, <2>4, FilesKept
  <2>10. QED
    BY <2>5, <2>6, <2>7, <2>8, <2>9 DEF H!HomesInv
<1>5. CASE H!RecordRelease(s)
  <2>1. /\ cmd[s].pc = "removed" /\ cleaner.pc = "idle"
        /\ entry' = [entry EXCEPT ![s] =
              [entry[s] EXCEPT !.state = IF cmd[s].gone THEN "released" ELSE "retained"]]
        /\ cmd' = [cmd EXCEPT ![s] = H!Idle]
        /\ homes' = homes /\ capture' = capture /\ proof' = proof /\ job' = job
        /\ cleaner' = cleaner /\ faults' = faults
    BY <1>5 DEF H!RecordRelease, H!SetEntry, H!Unlocked, H!disk
  <2>2. /\ cmd[s].gen \in H!Gens /\ cmd[s].gen = entry[s].gen /\ job[s].stage = "none"
        /\ cmd[s].gone => capture[s][entry[s].gen] = "released"
        /\ job[H!Cleaner].stage = "none"
    BY <2>1, <1>i DEF H!CommandsKnown, H!CleanupKnown
  <2>3. /\ entry'[s].state = IF cmd[s].gone THEN "released" ELSE "retained"
        /\ entry'[s].gen = entry[s].gen /\ entry'[s] \in H!EntryStates
        /\ cmd'[s].pc = "idle" /\ cmd'[s] \in H!Commands
        /\ \A t \in Slots : t # s => entry'[t] = entry[t] /\ cmd'[t] = cmd[t]
    <3>1. entry'[s] = [entry[s] EXCEPT !.state = IF cmd[s].gone THEN "released" ELSE "retained"]
      BY <2>1, <1>i DEF H!TypeOK
    <3>2. /\ entry'[s].state = IF cmd[s].gone THEN "released" ELSE "retained"
          /\ entry'[s].gen = entry[s].gen /\ entry'[s] \in H!EntryStates
      BY <3>1, <1>e DEF H!EntryStates
    <3>3. cmd'[s] = H!Idle
      BY <2>1, <1>i DEF H!TypeOK
    <3>4. cmd'[s].pc = "idle" /\ cmd'[s] \in H!Commands
      BY <3>3, <1>c DEF H!Commands, H!Idle
    <3>5. \A t \in Slots : t # s => entry'[t] = entry[t] /\ cmd'[t] = cmd[t]
      BY <2>1, <1>i DEF H!TypeOK
    <3>6. QED
      BY <3>2, <3>4, <3>5
  <2>4. H!TypeOK'
    BY <2>1, <2>3, <1>i DEF H!TypeOK
  <2>5. H!InTurn' /\ H!ReleasedWithProof' /\ H!FilesMatch'
    BY <2>1, <2>2, <2>3, <1>i, <1>c DEF H!InTurn, H!ReleasedWithProof, H!FilesMatch,
         H!Matches, H!Gens
  <2>6. H!CommandsKnown' /\ H!CleanupKnown'
    BY <2>1, <2>2, <2>3, <1>i DEF H!CommandsKnown, H!CleanupKnown
  <2>7. QED
    BY <2>1, <2>4, <2>5, <2>6, FilesKept DEF H!HomesInv
<1>6. QED
  BY <1>1, <1>2, <1>3, <1>4, <1>5 DEF H!Command

\* Each step of the cleanup keeps the invariant.
LEMMA HomeCleanupInv == ASSUME H!HomesInv, H!Cleanup PROVE H!HomesInv'
<1>i. H!TypeOK /\ H!FilesMatch /\ H!InTurn /\ H!CommandsKnown /\ H!CleanupKnown /\ H!OneRemoval
      /\ H!ReleasedWithProof
  BY DEF H!HomesInv
<1>c. MaxGen \in Nat /\ H!Cleaner \notin Slots /\ H!Actors = Slots \union {H!Cleaner}
  BY PartsAssumption DEF H!HomesConstants, H!Cleaner, H!Actors
<1>e. \A t \in Slots : /\ entry[t] \in H!EntryStates /\ entry[t].gen \in 0 .. MaxGen
                       /\ t \in H!Entries => entry[t].gen \in H!Gens
  BY <1>i, <1>c DEF H!TypeOK, H!EntryStates, H!InTurn, H!Gens, H!Entries
<1>1. CASE H!StartCleanup
  <2>1. /\ cleaner.pc = "idle" /\ entry' = entry /\ homes' = homes /\ capture' = capture
        /\ proof' = proof /\ cmd' = cmd /\ job' = job /\ faults' = faults
        /\ cleaner' = [pc |-> "cleaning", kept |-> {},
                       todo |-> {s \in H!Entries : entry[s].state # "released"}]
    BY <1>1 DEF H!StartCleanup, H!Unlocked, H!disk
  <2>2. cleaner'.todo \subseteq H!Entries /\ cleaner'.kept = {} /\ H!Entries \subseteq Slots
    BY <2>1 DEF H!Entries
  <2>3. H!TypeOK'
    BY <2>1, <2>2, <1>i DEF H!TypeOK
  <2>4. H!CleanupKnown'
    <3>1. \A s \in H!Entries \ cleaner'.todo : capture[s][entry[s].gen] = "released"
      BY <2>1, <2>2, <1>i DEF H!ReleasedWithProof
    <3>2. job[H!Cleaner].stage = "none"
      BY <2>1, <1>i DEF H!CleanupKnown
    <3>3. QED
      BY <2>1, <2>2, <3>1, <3>2 DEF H!CleanupKnown, H!Entries
  <2>5. H!CommandsKnown' /\ H!InTurn' /\ H!ReleasedWithProof' /\ H!FilesMatch'
    BY <2>1, <1>i DEF H!CommandsKnown, H!InTurn, H!ReleasedWithProof, H!FilesMatch, H!Matches
  <2>6. QED
    BY <2>1, <2>3, <2>4, <2>5, FilesKept DEF H!HomesInv
<1>2. ASSUME NEW s \in Slots, H!CleanSlot(s) PROVE H!HomesInv'
  <2>1. /\ cleaner.pc = "cleaning" /\ s \in cleaner.todo /\ job[H!Cleaner].stage = "none"
        /\ cleaner' = [cleaner EXCEPT !.todo = @ \ {s}]
        /\ job' = [job EXCEPT ![H!Cleaner] =
                     [stage |-> "host", slot |-> s, gen |-> entry[s].gen]]
        /\ entry' = entry /\ homes' = homes /\ capture' = capture
        /\ proof' = proof /\ cmd' = cmd /\ faults' = faults
    BY <1>2 DEF H!CleanSlot, H!disk, H!NoJob
  <2>2. s \in H!Entries /\ entry[s].gen \in H!Gens /\ entry[s].gen \in 0 .. MaxGen
    BY <2>1, <1>2, <1>e, <1>i DEF H!CleanupKnown
  <2>3. /\ job'[H!Cleaner] = [stage |-> "host", slot |-> s, gen |-> entry[s].gen]
        /\ job'[H!Cleaner] \in H!Jobs
        /\ \A a \in H!Actors : a # H!Cleaner => job'[a] = job[a]
    BY <2>1, <2>2, <1>i, <1>c DEF H!TypeOK, H!Jobs
  <2>4. /\ cleaner'.pc = "cleaning" /\ cleaner'.todo = cleaner.todo \ {s}
        /\ cleaner'.kept = cleaner.kept
    BY <2>1, <1>i DEF H!TypeOK
  <2>5. H!TypeOK'
    BY <2>1, <2>3, <1>i, <1>c DEF H!TypeOK
  <2>6. H!CleanupKnown'
    BY <2>1, <2>2, <2>3, <2>4, <1>i DEF H!CleanupKnown, H!Entries
  <2>7. H!CommandsKnown'
    BY <2>1, <2>3, <1>i, <1>c DEF H!CommandsKnown
  <2>8. H!InTurn' /\ H!ReleasedWithProof' /\ H!FilesMatch'
    BY <2>1, <1>i DEF H!InTurn, H!ReleasedWithProof, H!FilesMatch, H!Matches
  <2>9. H!OneRemoval'
    BY <2>1, <2>3, FilesKept
  <2>10. QED
    BY <2>5, <2>6, <2>7, <2>8, <2>9 DEF H!HomesInv
<1>3. CASE H!EndCleanup
  <2>1. /\ cleaner.pc = "cleaning" /\ cleaner.todo = {} /\ job[H!Cleaner].stage = "none"
        /\ entry' = [s \in Slots |->
              IF entry[s].state \in {"none", "released"} THEN entry[s]
              ELSE [entry[s] EXCEPT !.state = IF s \in cleaner.kept THEN "retained"
                                              ELSE "released"]]
        /\ cleaner' = [cleaner EXCEPT !.pc = "idle"]
        /\ homes' = homes /\ capture' = capture /\ proof' = proof /\ cmd' = cmd /\ job' = job
        /\ faults' = faults
    BY <1>3 DEF H!EndCleanup, H!disk, H!NoJob
  <2>2. \A s \in Slots :
           /\ entry'[s] \in H!EntryStates /\ entry'[s].gen = entry[s].gen
           /\ entry'[s].state = "none" <=> entry[s].state = "none"
           /\ entry'[s].state = "released" =>
                 entry[s].state = "released" \/ (entry[s].state # "none" /\ s \notin cleaner.kept)
    <3> SUFFICES ASSUME NEW s \in Slots
                 PROVE  /\ entry'[s] \in H!EntryStates /\ entry'[s].gen = entry[s].gen
                        /\ entry'[s].state = "none" <=> entry[s].state = "none"
                        /\ entry'[s].state = "released" =>
                             \/ entry[s].state = "released"
                             \/ entry[s].state # "none" /\ s \notin cleaner.kept
      OBVIOUS
    <3>1. CASE entry[s].state \in {"none", "released"}
      BY <2>1, <3>1, <1>e
    <3>2. CASE entry[s].state \notin {"none", "released"}
      <4>1. entry'[s] = [entry[s] EXCEPT !.state = IF s \in cleaner.kept THEN "retained"
                                                   ELSE "released"]
        BY <2>1, <3>2
      <4>2. QED
        BY <4>1, <3>2, <1>e DEF H!EntryStates
    <3>3. QED
      BY <3>1, <3>2
  <2>3. cleaner'.pc = "idle" /\ cleaner'.todo = cleaner.todo /\ cleaner'.kept = cleaner.kept
    BY <2>1, <1>i DEF H!TypeOK
  <2>4. H!TypeOK'
    BY <2>1, <2>2, <1>i DEF H!TypeOK
  <2>5. H!ReleasedWithProof'
    <3> SUFFICES ASSUME NEW s \in Slots, entry'[s].state = "released"
                 PROVE  capture[s][entry[s].gen] = "released"
      BY <2>1, <2>2 DEF H!ReleasedWithProof
    <3>1. QED
      BY <2>1, <2>2, <1>i DEF H!ReleasedWithProof, H!CleanupKnown, H!Entries
  <2>6. H!InTurn' /\ H!FilesMatch'
    BY <2>1, <2>2, <1>i DEF H!InTurn, H!FilesMatch, H!Matches
  <2>7. H!CommandsKnown'
    BY <2>1, <2>2, <1>i DEF H!CommandsKnown
  <2>8. H!CleanupKnown'
    BY <2>1, <2>3 DEF H!CleanupKnown
  <2>9. QED
    BY <2>1, <2>4, <2>5, <2>6, <2>7, <2>8, FilesKept DEF H!HomesInv
<1>4. QED
  BY <1>1, <1>2, <1>3 DEF H!Cleanup

\* So does the end of a process.
LEMMA HomeCrashInv == ASSUME H!HomesInv, NEW a \in H!Actors, H!Crash(a) PROVE H!HomesInv'
<1>i. H!TypeOK /\ H!FilesMatch /\ H!InTurn /\ H!CommandsKnown /\ H!CleanupKnown /\ H!OneRemoval
      /\ H!ReleasedWithProof
  BY DEF H!HomesInv
<1>c. MaxGen \in Nat /\ MaxFaults \in Nat /\ H!Cleaner \notin Slots
      /\ H!Actors = Slots \union {H!Cleaner}
  BY PartsAssumption DEF H!HomesConstants, H!Cleaner, H!Actors
<1>1. /\ faults' \in 0 .. MaxFaults /\ job' = [job EXCEPT ![a] = H!NoJob]
      /\ entry' = entry /\ homes' = homes /\ capture' = capture /\ proof' = proof
  BY <1>i, <1>c DEF H!Crash, H!disk, H!TypeOK
<1>2. /\ job'[a] = H!NoJob /\ job'[a].stage = "none" /\ job' \in [H!Actors -> H!Jobs]
      /\ \A b \in H!Actors : b # a => job'[b] = job[b]
  BY <1>1, <1>i, <1>c DEF H!TypeOK, H!Jobs, H!NoJob
<1>3. H!OneRemoval' /\ H!InTurn' /\ H!ReleasedWithProof' /\ H!FilesMatch'
  <2>1. H!OneRemoval'
    BY <1>1, <1>2, FilesKept
  <2>2. QED
    BY <2>1, <1>1, <1>i DEF H!InTurn, H!ReleasedWithProof, H!FilesMatch, H!Matches
<1>4. CASE a = H!Cleaner
  <2>1. /\ cmd' = cmd /\ cleaner' = [cleaner EXCEPT !.pc = "idle", !.todo = {}, !.kept = {}]
    BY <1>4 DEF H!Crash
  <2>2. cleaner'.pc = "idle"
        /\ cleaner' \in [pc : {"idle", "cleaning"}, todo : SUBSET Slots, kept : SUBSET Slots]
    BY <2>1, <1>i DEF H!TypeOK
  <2>3. H!TypeOK'
    BY <2>1, <2>2, <1>1, <1>2, <1>i DEF H!TypeOK
  <2>4. H!CommandsKnown' /\ H!CleanupKnown'
    BY <2>1, <2>2, <1>1, <1>2, <1>4, <1>i, <1>c DEF H!CommandsKnown, H!CleanupKnown
  <2>5. QED
    BY <1>3, <2>3, <2>4 DEF H!HomesInv
<1>5. CASE a # H!Cleaner
  <2>1. cmd' = [cmd EXCEPT ![a] = H!Idle] /\ cleaner' = cleaner /\ a \in Slots
    BY <1>5, <1>c DEF H!Crash
  <2>2. /\ cmd'[a].pc = "idle" /\ cmd' \in [Slots -> H!Commands]
        /\ \A t \in Slots : t # a => cmd'[t] = cmd[t]
    BY <2>1, <1>i, <1>c DEF H!TypeOK, H!Commands, H!Idle
  <2>3. H!TypeOK'
    BY <2>1, <2>2, <1>1, <1>2, <1>i DEF H!TypeOK
  <2>4. H!CommandsKnown'
    BY <2>1, <2>2, <1>1, <1>2, <1>i, <1>c DEF H!CommandsKnown
  <2>5. H!CleanupKnown'
    BY <2>1, <1>1, <1>2, <1>5, <1>i, <1>c DEF H!CleanupKnown, H!Entries
  <2>6. QED
    BY <1>3, <2>3, <2>4, <2>5 DEF H!HomesInv
<1>6. QED
  BY <1>4, <1>5

\* No home is there at the start.
LEMMA HomesInitInv == H!Init => H!HomesInv
<1> SUFFICES ASSUME H!Init PROVE H!HomesInv
  OBVIOUS
<1>c. MaxGen \in Nat /\ H!Cleaner \notin Slots /\ H!Actors = Slots \union {H!Cleaner}
  BY PartsAssumption DEF H!HomesConstants, H!Cleaner, H!Actors
<1>1. H!TypeOK
  BY <1>c, PartsAssumption
     DEF H!Init, H!TypeOK, H!HomesConstants, H!Each, H!EntryStates, H!Homes, H!Captures,
          H!Proofs, H!Commands, H!Jobs,
         H!NoJob, H!Idle
<1>2. /\ \A s \in Slots : entry[s].state = "none" /\ entry[s].gen = 0 /\ cmd[s].pc = "idle"
      /\ \A s \in Slots, g \in H!Gens :
            homes[s][g] = "absent" /\ capture[s][g] = "none" /\ proof[s][g] = "none"
      /\ \A a \in H!Actors : job[a].stage = "none"
      /\ cleaner.pc = "idle"
  BY DEF H!Init, H!Each, H!NoJob, H!Idle
<1>3. H!FilesMatch /\ H!CommandsKnown /\ H!CleanupKnown /\ H!OneRemoval /\ H!ReleasedWithProof
  BY <1>2, <1>c DEF H!FilesMatch, H!Matches, H!CommandsKnown, H!CleanupKnown, H!OneRemoval,
       H!Removing,
     H!ReleasedWithProof
<1>4. H!InTurn
  <2>1. \A g \in H!Gens : ~(g < 0)
    BY DEF H!Gens
  <2>2. QED
    BY <1>2, <2>1 DEF H!InTurn
<1>5. QED
  BY <1>1, <1>3, <1>4 DEF H!HomesInv

\* Every step keeps the invariant.
LEMMA HomesStepInv == H!HomesInv /\ [H!Next]_homeVars => H!HomesInv'
<1> SUFFICES ASSUME H!HomesInv, [H!Next]_homeVars PROVE H!HomesInv'
  OBVIOUS
<1>1. CASE UNCHANGED homeVars
  BY <1>1 DEF homeVars, H!disk, H!HomesInv, H!TypeOK, H!FilesMatch, H!Matches, H!InTurn,
       H!CommandsKnown, H!CleanupKnown,
     H!Entries, H!OneRemoval, H!Removing, H!Of, H!ReleasedWithProof
<1>2. CASE H!Next
  BY <1>2, HomeCommandInv, HomeRemoveInv, HomeCrashInv, HomeCleanupInv DEF H!Next
<1>3. QED
  BY <1>1, <1>2

\* What it says of the homes.
LEMMA HomesInvMeans == H!HomesInv => H!HomesAccounted
<1> SUFFICES ASSUME H!HomesInv PROVE H!HomesAccounted
  OBVIOUS
<1>1. H!ReleasedWithProof
  BY DEF H!HomesInv
<1>2. H!ProofFirst
  BY DEF H!HomesInv, H!FilesMatch, H!Matches, H!ProofFirst
<1>3. H!HomesInLedger
  <2> SUFFICES ASSUME NEW s \in Slots, NEW g \in H!Gens, homes[s][g] \in {"present", "captured"}
               PROVE  \/ entry[s].gen = g /\ entry[s].state # "released"
                      \/ H!Recreated(s, g)
    BY DEF H!HomesInLedger
  <2>1. g < entry[s].gen \/ g = entry[s].gen \/ g > entry[s].gen
    BY PartsAssumption DEF H!HomesInv, H!TypeOK, H!EntryStates, H!Gens, H!HomesConstants
  <2>2. g > entry[s].gen => homes[s][g] = "absent"
    BY DEF H!HomesInv, H!InTurn
  <2>3. g < entry[s].gen \/ (g = entry[s].gen /\ entry[s].state = "released")
        => capture[s][g] = "released"
    BY <1>1 DEF H!HomesInv, H!InTurn, H!ReleasedWithProof
  <2>4. capture[s][g] = "released" => homes[s][g] # "captured"
    BY DEF H!HomesInv, H!FilesMatch, H!Matches
  <2>5. QED
    BY <2>1, <2>2, <2>3, <2>4 DEF H!Recreated
<1>4. QED
  BY <1>1, <1>2, <1>3 DEF H!HomesAccounted

-----------------------------------------------------------------------------
(* The redrive of the runs (RunRedrive).                                   *)

\* No run is known at the start.
LEMMA RedriveInitInv == R!Init => R!TypeOK
<1> SUFFICES ASSUME R!Init PROVE R!TypeOK
  OBVIOUS
<1>1. turn \in [by : R!Departments, pc : {"idle", "load", "raise"},
                todo : SUBSET R!Runs, found : SUBSET R!Runs]
  BY DEF R!Init, R!Idle, R!Departments
<1>2. QED
  BY <1>1, PartsAssumption DEF R!Init, R!TypeOK, R!RedriveConstants

\* The next part of a job is one of the runs it found.
LEMMA RedriveGo ==
    ASSUME R!TypeOK, NEW todo, todo \subseteq R!Runs, NEW found, found \subseteq R!Runs,
           NEW then \in {"idle", "load", "raise"}, R!Go(todo, found, then)
    PROVE  turn' \in [by : R!Departments, pc : {"idle", "load", "raise"},
                      todo : SUBSET R!Runs, found : SUBSET R!Runs]
<1>1. CASE todo # {}
  BY <1>1 DEF R!Go, R!TypeOK
<1>2. CASE todo = {} /\ found = {}
  BY <1>2 DEF R!Go, R!Idle, R!Departments
<1>3. CASE todo = {} /\ found # {}
  BY <1>3 DEF R!Go, R!TypeOK
<1>4. QED
  BY <1>1, <1>2, <1>3

\* Every step keeps the variables in their ranges.
LEMMA RedriveStepInv == R!TypeOK /\ [R!Next]_redriveVars => R!TypeOK'
<1> SUFFICES ASSUME R!TypeOK, [R!Next]_redriveVars PROVE R!TypeOK'
  OBVIOUS
<1> USE DEF R!Requests, R!Records
<1>1. CASE UNCHANGED redriveVars
  BY <1>1 DEF redriveVars, R!TypeOK
<1>2. CASE UNCHANGED limit /\ \E d \in R!Departments : R!Tick(d)
  <2>1. PICK d \in R!Departments : R!Tick(d)
    BY <1>2
  <2>2. R!First({r \in R!Runs : R!Lists(d, r)}) \subseteq R!Runs
    BY DEF R!First
  <2>3. QED
    BY <1>2, <2>1, <2>2 DEF R!Tick, R!Enter, R!TypeOK
<1>3. CASE UNCHANGED limit /\ R!Reconstruct
  <2>1. PICK r \in R!Runs :
          \/ r \in broken /\ turn' = R!Idle /\ UNCHANGED phase
          \/ /\ phase' = [phase EXCEPT ![r] = IF @ = "indexed" THEN "open" ELSE @]
             /\ R!Go(turn.todo \ {r},
                     turn.found \union (IF phase[r] = "blocked" THEN {} ELSE {r}), "raise")
    BY <1>3 DEF R!Reconstruct
  <2>2. R!Idle \in [by : R!Departments, pc : {"idle", "load", "raise"},
                    todo : SUBSET R!Runs, found : SUBSET R!Runs]
    BY DEF R!Idle, R!Departments
  <2>3. /\ turn.todo \ {r} \subseteq R!Runs
        /\ turn.found \union (IF phase[r] = "blocked" THEN {} ELSE {r}) \subseteq R!Runs
    BY DEF R!TypeOK
  <2>4. turn' \in [by : R!Departments, pc : {"idle", "load", "raise"},
                   todo : SUBSET R!Runs, found : SUBSET R!Runs]
    BY <2>1, <2>2, <2>3, RedriveGo
  <2>5. QED
    BY <1>3, <2>1, <2>4 DEF R!Reconstruct, R!TypeOK
<1>4. CASE UNCHANGED limit /\ R!Raise
  <2>1. PICK r \in R!Runs :
          /\ R!Go(turn.todo \ {r}, {}, "idle")
          /\ \/ raised' = raised \union {r} /\ ticks' = ticks
             \/ ticks' = ticks \union {r} /\ raised' = raised
    BY <1>4 DEF R!Raise
  <2>2. turn.todo \ {r} \subseteq R!Runs
    BY DEF R!TypeOK
  <2>3. turn' \in [by : R!Departments, pc : {"idle", "load", "raise"},
                   todo : SUBSET R!Runs, found : SUBSET R!Runs]
    BY <2>1, <2>2, RedriveGo
  <2>4. raised' \subseteq R!Runs /\ ticks' \subseteq R!Runs
    BY <2>1 DEF R!TypeOK
  <2>5. phase' = phase /\ broken' = broken /\ halts' = halts
    BY <1>4 DEF R!Raise
  <2>6. QED
    BY <1>4, <2>3, <2>4, <2>5 DEF R!TypeOK
<1>5. CASE UNCHANGED limit /\ R!Stop
  BY <1>5, PartsAssumption DEF R!Stop, R!TypeOK, R!Idle, R!Departments, R!RedriveConstants
<1>6. ASSUME UNCHANGED limit, NEW r \in R!Runs,
             R!IndexRun(r) \/ R!Break(r) \/ R!RunTick(r) \/ R!Answer(r) \/ R!RecordTerminal(r)
             \/ R!Lose(r)
      PROVE  R!TypeOK'
  <2>1. CASE R!IndexRun(r)
    BY <1>6, <2>1 DEF R!IndexRun, R!TypeOK
  <2>2. CASE R!Break(r)
    BY <1>6, <2>2 DEF R!Break, R!TypeOK
  <2>3. CASE R!RunTick(r)
    BY <1>6, <2>3 DEF R!RunTick, R!Enter, R!TypeOK, R!Departments
  <2>4. CASE R!Answer(r)
    BY <1>6, <2>4 DEF R!Answer, R!TypeOK
  <2>5. CASE R!RecordTerminal(r) \/ R!Lose(r)
    BY <1>6, <2>5 DEF R!RecordTerminal, R!Lose, R!TypeOK
  <2>6. QED
    BY <1>6, <2>1, <2>2, <2>3, <2>4, <2>5
<1>7. QED
  BY <1>1, <1>2, <1>3, <1>4, <1>5, <1>6 DEF R!Next, R!Steps

-----------------------------------------------------------------------------
(* The parts together (MCRuntimeParts).                                    *)

\* What keeps every part as it should be, whichever is at work.
PartsInv ==
    /\ H!HomesInv /\ ProcessInv /\ PortInv /\ WorkspaceInv /\ LineageInv
    /\ B!BudgetInv /\ R!TypeOK

\* A step is one of the part at work, and leaves the others alone.
LEMMA StepOfParts ==
    [Next]_allVars =>
        /\ [H!Next]_homeVars /\ [ProcessNext]_processVars /\ [PortNext]_portVars
        /\ [WorkspaceNext]_workspaceVars /\ [LineageNext]_lineageVars
        /\ [B!Next]_budgetVars /\ [R!Next]_redriveVars
<1> SUFFICES ASSUME [Next]_allVars
             PROVE  /\ [H!Next]_homeVars /\ [ProcessNext]_processVars /\ [PortNext]_portVars
                    /\ [WorkspaceNext]_workspaceVars /\ [LineageNext]_lineageVars
                    /\ [B!Next]_budgetVars /\ [R!Next]_redriveVars
  OBVIOUS
<1>1. CASE UNCHANGED allVars
  BY <1>1 DEF allVars
<1>2. CASE Next
  BY <1>2 DEF Next, Only
<1>3. QED
  BY <1>1, <1>2

\* Whatever part is at work, however its handlers interleave and wherever they stop:
\* no home of a worker is forgotten, called released too early, or left without its
\* proof, and no part ever leaves its inductive invariant (cleanupWorkerHomeLedger,
\* removeOwnedDirectory).
THEOREM HomesAreAccounted == Spec => []HomesAccounted
<1>1. Init => PartsInv
  BY HomesInitInv, ProcessInitInv, PortInitInv, WorkspaceInitInv, LineageInitInv,
     BudgetInitInv, RedriveInitInv
     DEF Init, PartsInv
<1>2. PartsInv /\ [Next]_allVars => PartsInv'
  BY StepOfParts, HomesStepInv, ProcessStepInv, PortStepInv, WorkspaceStepInv,
     LineageStepInv, BudgetStepInv, RedriveStepInv
     DEF PartsInv
<1>3. PartsInv => HomesAccounted
  BY HomesInvMeans DEF PartsInv, HomesAccounted
<1>4. QED
  BY <1>1, <1>2, <1>3, PTL DEF Spec
=============================================================================
