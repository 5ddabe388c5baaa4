--------------------------- MODULE ExclusionProofs ---------------------------
(***************************************************************************)
(* Proofs about what one party at a time may do, or one party once.        *)
(*                                                                         *)
(* The lock and the record of an effect (EffectLedger), for any bounds of  *)
(* MCHostLocks: one live process at a time goes on with the lock whatever  *)
(* the dead left and however takeovers overlap, and every answer is what   *)
(* the record says.  For the lock of the store, what DurableLockProofs     *)
(* shows is stated of MCHostLocks.                                         *)
(*                                                                         *)
(* Structured execution, for any deliveries, grants, plans and faults: a   *)
(* case runs once under a grant, and results stand.                        *)
(***************************************************************************)
EXTENDS MCHostLocks, StructuredExecution, TLAPS

-----------------------------------------------------------------------------
(* The lock of an effect (EffectLedger).                                   *)

\* Nothing is locked, marked or recorded by a process at the start.
LEMMA EffectInitInv == E!Init => E!EffectInv
<1> SUFFICES ASSUME E!Init PROVE E!EffectInv
  OBVIOUS
<1>1. E!TypeOK
  BY LocksAssumption DEF E!Init, E!TypeOK, E!Owners, E!PCs, E!Ended, E!EffectConstants
<1>2. E!GuardHeld /\ E!OwnAnswer
  BY LocksAssumption DEF E!Init, E!GuardHeld, E!Guarding, E!OwnAnswer, E!EffectConstants
<1>3. E!TakeoverGuarded /\ E!LockOwned /\ E!ProducedOnce /\ E!AnswersStand
  BY LocksAssumption DEF E!Init, E!TakeoverGuarded, E!At, E!LockOwned, E!Owning, E!Critical,
     E!ProducedOnce, E!AnswersStand, E!EffectConstants
<1>4. QED
  BY <1>1, <1>2, <1>3 DEF E!EffectInv

\* Where a process goes, and what it keeps of what it observed.
LEMMA EffectGoto ==
    ASSUME E!TypeOK, NEW p \in Namesakes, NEW pc \in E!PCs, E!Goto(p, pc) \/ E!Forget(p, pc)
    PROVE  /\ effect' \in [Namesakes -> [pc : E!PCs, seen : E!Owners]]
           /\ effect'[p].pc = pc
           /\ E!Goto(p, pc) => effect'[p].seen = effect[p].seen
           /\ \A q \in Namesakes : q # p => effect'[q] = effect[q]
<1>1. effect \in [Namesakes -> [pc : E!PCs, seen : E!Owners]] /\ Nothing \in E!Owners
  BY DEF E!TypeOK, E!Owners
<1>2. CASE E!Goto(p, pc)
  <2>1. effect' = [effect EXCEPT ![p] = [effect[p] EXCEPT !.pc = pc]]
    BY <1>2 DEF E!Goto
  <2>2. [effect[p] EXCEPT !.pc = pc] \in [pc : E!PCs, seen : E!Owners]
    BY <1>1
  <2>3. QED
    BY <1>1, <2>1, <2>2
<1>3. CASE E!Forget(p, pc)
  <2>1. [pc |-> pc, seen |-> Nothing] \in [pc : E!PCs, seen : E!Owners]
    BY <1>1
  <2>2. QED
    BY <1>1, <1>3, <2>1 DEF E!Forget, E!Goto
<1>4. QED
  BY <1>2, <1>3

\* What a step of a process does to the state of the others, and where it may be taken.
LEMMA EffectStep ==
    ASSUME E!TypeOK, NEW p \in Namesakes,
           \/ E!HelperSteps(p) \/ E!HelperKilled(p) \/ E!Steps(p)
           \/ E!Timeout(p) \/ E!MarkerStays(p) \/ E!Crash(p)
    PROVE  /\ E!TypeOK'
           /\ \A q \in Namesakes : q # p => /\ effect'[q] = effect[q] /\ helper'[q] = helper[q]
                                            /\ moved'[q] = moved[q] /\ answer'[q] = answer[q]
           /\ effect[p].pc \in {"done", "failed", "crashed"} => effect' = effect
<1> USE DEF E!Faults, E!Ledger, E!Locks, E!lockVars, E!At
<1>c. /\ {"top", "cleaning", "cleaned", "create", "created", "observe", "takeover",
          "confirm", "retire", "moved", "recreate", "reassert", "handover", "letgo",
          "giveup", "asked", "done", "failed", "crashed", "held", "produced", "release"}
             \subseteq E!PCs
      /\ effect[p].pc \in E!PCs /\ Nothing \in E!Owners /\ p \in E!Owners
      /\ \A q \in Namesakes : lock = q => lock \in E!Owners
  BY DEF E!PCs, E!Ended, E!Critical, E!Owners, E!TypeOK
<1>1. CASE E!HelperSteps(p)
  BY <1>1, <1>c DEF E!HelperSteps, E!HelperLocks, E!HelperClears, E!HelperMarks,
     E!HelperUnmarks, E!HelperExits, E!TypeOK
<1>2. CASE E!HelperKilled(p)
  BY <1>2, <1>c, LocksAssumption DEF E!HelperKilled, E!TypeOK, E!EffectConstants
<1>3. CASE E!Crash(p)
  BY <1>3, <1>c, EffectGoto, LocksAssumption DEF E!Crash, E!Alive, E!Ended, E!TypeOK,
     E!EffectConstants
<1>4. CASE E!Timeout(p) \/ E!MarkerStays(p)
  <2>1. E!Forget(p, "failed") /\ effect[p].pc \notin {"done", "failed", "crashed"}
    BY <1>4 DEF E!Timeout, E!MarkerStays, E!GiveUp
  <2>2. UNCHANGED <<lock, marker, moved, produced, answer, stops, kills>>
    BY <1>4 DEF E!Timeout, E!MarkerStays, E!GiveUp
  <2>3. /\ helper' = [helper EXCEPT ![p] = IF @ = "leaving" THEN @ ELSE "none"]
        /\ guard' \in {Nothing, guard}
    BY <1>4 DEF E!Timeout, E!MarkerStays, E!GiveUp
  <2>4. QED
    BY <1>c, <2>1, <2>2, <2>3, EffectGoto DEF E!TypeOK
<1>5. CASE E!Top(p) \/ E!Clean(p) \/ E!Cleaned(p)
  BY <1>5, <1>c, EffectGoto DEF E!Top, E!Clean, E!Cleaned, E!StartHelper, E!TypeOK
<1>6. CASE E!Create(p) \/ E!Created(p)
  BY <1>6, <1>c, EffectGoto DEF E!Create, E!Created, E!Drop, E!TypeOK
<1>7. CASE E!Observe(p)
  <2>1. /\ UNCHANGED <<lock, marker, guard, moved, produced, answer, stops, kills>>
        /\ effect[p].pc = "observe"
    BY <1>7 DEF E!Observe
  <2>2. CASE E!Goto(p, "top") /\ UNCHANGED helper
    BY <1>c, <2>1, <2>2, EffectGoto DEF E!TypeOK
  <2>3. CASE /\ effect' = [effect EXCEPT ![p] = [pc |-> "takeover", seen |-> lock]]
             /\ E!StartHelper(p)
    <3>1. [pc |-> "takeover", seen |-> lock] \in [pc : E!PCs, seen : E!Owners]
      BY <1>c DEF E!TypeOK
    <3>2. QED
      BY <2>1, <2>3, <3>1 DEF E!TypeOK, E!StartHelper
  <2>4. QED
    BY <1>7, <2>2, <2>3 DEF E!Observe
<1>8. CASE E!Takeover(p) \/ E!HelperLost(p) \/ E!Confirm(p)
  BY <1>8, <1>c, EffectGoto DEF E!Takeover, E!HelperLost, E!Confirm, E!TypeOK
<1>9. CASE E!Retire(p) \/ E!Moved(p)
  <2>1. CASE E!Retire(p)
    BY <2>1, <1>c, EffectGoto DEF E!Retire, E!TypeOK
  <2>2. CASE E!Moved(p)
    BY <2>2, <1>c, EffectGoto DEF E!Moved, E!TypeOK
  <2>3. QED
    BY <1>9, <2>1, <2>2
<1>10. CASE E!Recreate(p) \/ E!Reassert(p)
  BY <1>10, <1>c, EffectGoto DEF E!Recreate, E!Reassert, E!Drop, E!TypeOK
<1>11. CASE E!LetGo(p)
  BY <1>11, <1>c, EffectGoto DEF E!LetGo, E!TypeOK
<1>12. CASE E!Ask(p) \/ E!Produce(p)
  BY <1>12, <1>c, EffectGoto DEF E!Ask, E!Produce, E!Bound, E!Give, E!TypeOK
<1>13. CASE E!Record(p) \/ E!Release(p)
  BY <1>13, <1>c, EffectGoto DEF E!Record, E!Release, E!Drop, E!TypeOK
<1>14. QED
  BY <1>1, <1>2, <1>3, <1>4, <1>5, <1>6, <1>7, <1>8, <1>9, <1>10, <1>11, <1>12, <1>13
     DEF E!Steps

\* One helper has the guard, and its marker is not written over.
LEMMA EffectGuardInv ==
    ASSUME E!TypeOK, E!GuardHeld, NEW p \in Namesakes,
           \/ E!HelperSteps(p) \/ E!HelperKilled(p) \/ E!Steps(p)
           \/ E!Timeout(p) \/ E!MarkerStays(p) \/ E!Crash(p)
    PROVE  E!GuardHeld'
<1>f. /\ E!TypeOK'
      /\ \A q \in Namesakes : q # p => helper'[q] = helper[q]
  BY EffectStep
<1>o. \A q \in Namesakes : q # p /\ guard = p => helper[q] \notin E!Guarding
  BY DEF E!GuardHeld
<1>t. helper \in [Namesakes -> {"none", "starting", "guarding", "cleared", "marked", "leaving"}]
      /\ Nothing \notin Namesakes
  BY LocksAssumption DEF E!TypeOK, E!EffectConstants
<1>1. CASE E!HelperSteps(p) \/ E!HelperKilled(p)
  BY <1>1, <1>f, <1>o, <1>t DEF E!HelperSteps, E!HelperLocks, E!HelperClears, E!HelperMarks,
     E!HelperUnmarks, E!HelperExits, E!HelperKilled, E!GuardHeld, E!Guarding
<1>2. CASE E!Timeout(p) \/ E!MarkerStays(p)
  <2>1. /\ marker' = marker
        /\ helper' = [helper EXCEPT ![p] = IF @ = "leaving" THEN @ ELSE "none"]
        /\ guard' = (IF guard = p /\ helper[p] # "leaving" THEN Nothing ELSE guard)
    BY <1>2 DEF E!Timeout, E!MarkerStays, E!GiveUp
  <2>2. QED
    BY <1>t, <1>o, <2>1 DEF E!GuardHeld, E!Guarding
<1>3. CASE E!Steps(p) \/ E!Crash(p)
  <2>1. marker' = marker /\ guard' = guard
    BY <1>3 DEF E!Steps, E!Crash, E!Locks, E!lockVars, E!Top, E!Clean, E!Cleaned, E!Create,
       E!Created, E!Observe, E!Takeover, E!HelperLost, E!Confirm, E!Retire, E!Moved,
       E!Recreate, E!Reassert, E!LetGo, E!Ask, E!Produce, E!Record, E!Release
  <2>2. helper' = helper \/ (helper[p] = "none" /\ helper'[p] = "starting")
    BY <1>3, <1>t DEF E!Steps, E!Crash, E!Locks, E!lockVars, E!Top, E!Clean, E!Cleaned,
       E!Create, E!Created, E!Observe, E!Takeover, E!HelperLost, E!Confirm, E!Retire, E!Moved,
       E!Recreate, E!Reassert, E!LetGo, E!Ask, E!Produce, E!Record, E!Release, E!StartHelper
  <2>3. QED
    BY <1>f, <2>1, <2>2 DEF E!GuardHeld, E!Guarding
<1>4. QED
  BY <1>1, <1>2, <1>3

\* What a step leaves of the record, the answers and the lock.
LEMMA EffectQuiet ==
    ASSUME E!TypeOK, NEW p \in Namesakes,
           \/ E!HelperSteps(p) \/ E!HelperKilled(p) \/ E!Steps(p)
           \/ E!Timeout(p) \/ E!MarkerStays(p) \/ E!Crash(p)
    PROVE  /\ E!Record(p) \/ produced' = produced
           /\ E!Record(p) \/ answer' = answer \/ (E!Bound(p) /\ answer'[p] = produced)
           /\ \/ E!Create(p) \/ E!Created(p) \/ E!Retire(p) \/ E!Moved(p) \/ E!Recreate(p)
              \/ E!Reassert(p) \/ E!Release(p) \/ lock' = lock
           /\ kills \in Nat /\ (kills' = 0 => kills = 0)
           /\ kills' = kills \/ E!HelperKilled(p)
<1> USE DEF E!Faults, E!Ledger, E!Locks, E!lockVars
<1>1. answer \in [Namesakes -> Namesakes \union {Nothing}] /\ kills \in Nat
  BY LocksAssumption DEF E!TypeOK, E!EffectConstants
<1>2. CASE E!HelperSteps(p) \/ E!HelperKilled(p)
  BY <1>1, <1>2 DEF E!HelperSteps, E!HelperLocks, E!HelperClears, E!HelperMarks,
     E!HelperUnmarks, E!HelperExits, E!HelperKilled
<1>3. CASE E!Timeout(p) \/ E!MarkerStays(p) \/ E!Crash(p)
  BY <1>1, <1>3 DEF E!Timeout, E!MarkerStays, E!GiveUp, E!Crash
<1>4. CASE E!Steps(p)
  BY <1>1, <1>4 DEF E!Steps, E!Top, E!Clean, E!Cleaned, E!Create, E!Created, E!Observe,
     E!Takeover, E!HelperLost, E!Confirm, E!Retire, E!Moved, E!Recreate, E!Reassert, E!LetGo,
     E!Ask, E!Produce, E!Record, E!Release, E!Give
<1>5. QED
  BY <1>2, <1>3, <1>4

\* An answer is one to its own request.
LEMMA EffectAnswerInv ==
    ASSUME E!TypeOK, E!OwnAnswer, NEW p \in Namesakes,
           \/ E!HelperSteps(p) \/ E!HelperKilled(p) \/ E!Steps(p)
           \/ E!Timeout(p) \/ E!MarkerStays(p) \/ E!Crash(p)
    PROVE  E!OwnAnswer'
<1>1. \A q \in Namesakes : q # p => answer'[q] = answer[q]
  BY EffectStep
<1>2. CASE E!Record(p)
  BY <1>1, <1>2 DEF E!Record, E!OwnAnswer, E!TypeOK
<1>3. CASE answer' = answer \/ (E!Bound(p) /\ answer'[p] = produced)
  BY <1>1, <1>3 DEF E!Bound, E!OwnAnswer
<1>4. QED
  BY <1>2, <1>3, EffectQuiet

\* Who died stays dead, and is no process that goes on.
LEMMA EffectDead ==
    ASSUME E!TypeOK, NEW p \in Namesakes,
           \/ E!HelperSteps(p) \/ E!HelperKilled(p) \/ E!Steps(p)
           \/ E!Timeout(p) \/ E!MarkerStays(p) \/ E!Crash(p)
    PROVE  \A owner : E!IsDead(owner) =>
              /\ E!IsDead(owner)' /\ owner # Nothing
              /\ owner \in Namesakes =>
                    effect[owner].pc \in {"done", "failed", "crashed"} /\ owner # Dead
<1>1. \A q \in Namesakes : effect[q].pc \in {"done", "failed", "crashed"} =>
                         effect'[q].pc \in {"done", "failed", "crashed"}
  BY EffectStep
<1>2. QED
  BY <1>1, LocksAssumption DEF E!IsDead, E!EffectConstants

\* A process that goes on with a lock has it, and no one else has.
LEMMA EffectLockInv ==
    ASSUME E!TypeOK, E!GuardHeld, E!TakeoverGuarded, E!LockOwned, NEW p \in Namesakes,
           \/ E!HelperSteps(p) \/ E!HelperKilled(p) \/ E!Steps(p)
           \/ E!Timeout(p) \/ E!MarkerStays(p) \/ E!Crash(p)
    PROVE  E!LockOwned'
<1> USE DEF E!Faults, E!Ledger, E!Locks, E!lockVars, E!At
<1>f. /\ \A q \in Namesakes : q # p => effect'[q] = effect[q]
      /\ effect[p].pc \in {"done", "failed", "crashed"} => effect' = effect
      /\ E!TypeOK'
  BY EffectStep
<1>n. Nothing \notin Namesakes
  BY LocksAssumption DEF E!EffectConstants
<1>g. \A pc \in E!PCs : E!Goto(p, pc) \/ E!Forget(p, pc) => effect'[p].pc = pc
  BY EffectGoto
<1>c. {"top", "cleaning", "cleaned", "create", "created", "observe", "takeover",
       "confirm", "retire", "moved", "recreate", "reassert", "handover", "letgo",
       "giveup", "asked", "done", "failed", "crashed", "held", "produced", "release"}
          \subseteq E!PCs
  BY DEF E!PCs, E!Ended, E!Critical
<1>o. E!Owning = {"held", "produced", "release", "created", "reassert", "handover"}
  BY DEF E!Owning, E!Critical \* Most steps leave the lock to whoever has it.
<1>q. ASSUME lock' = lock,
             effect'[p].pc \in E!Owning => effect[p].pc \in E!Owning,
             effect[p].pc \in E!Owning
                => effect'[p].pc \in E!Owning \union {"failed", "crashed"}
      PROVE  E!LockOwned'
  BY <1>f, <1>q DEF E!LockOwned
<1>1. CASE E!HelperSteps(p) \/ E!HelperKilled(p)
  <2>1. lock' = lock /\ effect' = effect
    BY <1>1 DEF E!HelperSteps, E!HelperLocks, E!HelperClears, E!HelperMarks, E!HelperUnmarks,
       E!HelperExits, E!HelperKilled
  <2>2. QED
    BY <2>1 DEF E!LockOwned
<1>2. CASE E!Timeout(p) \/ E!MarkerStays(p) \/ E!Crash(p)
  BY <1>2, <1>g, <1>c, <1>o, <1>q DEF E!Timeout, E!MarkerStays, E!GiveUp, E!Crash
<1>3. CASE \/ E!Top(p) \/ E!Clean(p) \/ E!Cleaned(p) \/ E!Takeover(p) \/ E!HelperLost(p)
           \/ E!Confirm(p)
  BY <1>3, <1>g, <1>c, <1>o, <1>q DEF E!Top, E!Clean, E!Cleaned, E!Takeover, E!HelperLost,
     E!Confirm
<1>4. CASE E!Observe(p)
  <2>1. lock' = lock /\ effect[p].pc = "observe"
    BY <1>4 DEF E!Observe
  <2>2. effect'[p].pc \in {"top", "takeover"}
    BY <1>4, <1>g, <1>c DEF E!Observe, E!TypeOK
  <2>3. QED
    BY <2>1, <2>2, <1>o, <1>q
<1>5. CASE E!LetGo(p) \/ E!Ask(p) \/ E!Produce(p) \/ E!Record(p)
  BY <1>5, <1>g, <1>c, <1>o, <1>q DEF E!LetGo, E!Ask, E!Produce, E!Record
<1>6. CASE E!Create(p)
  <2>1. CASE lock = Nothing /\ lock' = p /\ E!Goto(p, "created")
    BY <2>1, <1>f, <1>g, <1>c, <1>o, <1>n DEF E!LockOwned
  <2>2. CASE lock' = lock /\ E!Goto(p, "observe")
    BY <2>2, <1>6, <1>g, <1>c, <1>o, <1>q DEF E!Create
  <2>3. QED
    BY <1>6, <2>1, <2>2 DEF E!Create
<1>7. CASE E!Created(p)
  <2>1. effect[p].pc = "created" /\ lock = p
    BY <1>7, <1>o DEF E!Created, E!LockOwned
  <2>2. CASE lock' = Nothing /\ E!Goto(p, "top")
    BY <2>1, <2>2, <1>f, <1>g, <1>c, <1>o, <1>n DEF E!LockOwned
  <2>3. CASE lock' = lock /\ E!Goto(p, "held")
    BY <2>1, <2>3, <1>g, <1>c, <1>o, <1>q
  <2>4. QED
    BY <1>7, <2>1, <2>2, <2>3 DEF E!Created,
       E!Drop \* The lock renamed aside is the one of the dead owner.
<1>8. CASE E!Retire(p)
  <2>1. effect[p].pc = "retire" /\ lock = effect[p].seen /\ E!IsDead(lock) /\ lock' = Nothing
    BY <1>8 DEF E!Retire, E!TakeoverGuarded
  <2>2. \A q \in Namesakes : effect[q].pc \notin E!Owning
    BY <2>1, <1>o, EffectDead DEF E!LockOwned
  <2>3. effect'[p].pc \in {"letgo", "moved"}
    BY <1>8, <1>g, <1>c DEF E!Retire
  <2>4. QED
    BY <2>1, <2>2, <2>3, <1>f, <1>o, <1>n DEF E!LockOwned
<1>9. CASE E!Moved(p)
  BY <1>9, <1>g, <1>c, <1>o, <1>q DEF E!Moved, E!TakeoverGuarded
<1>10. CASE E!Recreate(p)
  BY <1>10, <1>f, <1>g, <1>c, <1>o, <1>n DEF E!Recreate, E!LockOwned
<1>11. CASE E!Reassert(p)
  <2>1. E!Held(p) /\ lock' = lock /\ E!Goto(p, "handover") /\ effect[p].pc = "reassert"
    BY <1>11 DEF E!Reassert, E!Held, E!TakeoverGuarded, E!GuardHeld
  <2>2. QED
    BY <2>1, <1>g, <1>c, <1>o, <1>q
<1>12. CASE E!Release(p)
  <2>1. effect[p].pc = "release" /\ lock = p /\ lock' = Nothing
    BY <1>12, <1>o DEF E!Release, E!LockOwned, E!Drop
  <2>2. effect'[p].pc \in {"failed", "done"}
    BY <1>12, <1>g, <1>c DEF E!Release
  <2>3. QED
    BY <2>1, <2>2, <1>f, <1>o, <1>n DEF E!LockOwned
<1>13. QED
  BY <1>1, <1>2, <1>3, <1>4, <1>5, <1>6, <1>7, <1>8, <1>9, <1>10, <1>11, <1>12 DEF E!Steps

\* A takeover goes on with the guard, as long as no helper is killed under it.
LEMMA EffectTakeoverInv ==
    ASSUME E!TypeOK, E!GuardHeld, E!TakeoverGuarded, E!LockOwned, NEW p \in Namesakes,
           \/ E!HelperSteps(p) \/ E!HelperKilled(p) \/ E!Steps(p)
           \/ E!Timeout(p) \/ E!MarkerStays(p) \/ E!Crash(p),
           kills' = kills
    PROVE  E!TakeoverGuarded'
<1> USE DEF E!Faults, E!Ledger, E!Locks, E!lockVars, E!At
<1> DEFINE Gone(owner) ==
             \/ owner = Dead
             \/ owner \in Namesakes /\ effect'[owner].pc \in {"done", "failed", "crashed"}
<1> HIDE DEF Gone
<1>f. /\ \A q \in Namesakes : q # p => /\ effect'[q] = effect[q] /\ helper'[q] = helper[q]
                                       /\ moved'[q] = moved[q]
      /\ effect[p].pc \in {"done", "failed", "crashed"} => effect' = effect
      /\ E!TypeOK'
  BY EffectStep
<1>t. /\ helper \in [Namesakes -> {"none", "starting", "guarding", "cleared", "marked",
                               "leaving"}]
      /\ effect \in [Namesakes -> [pc : E!PCs, seen : E!Owners]]
      /\ moved \in [Namesakes -> E!Owners]
  BY DEF E!TypeOK
<1>g. \A pc \in E!PCs : E!Goto(p, pc) \/ E!Forget(p, pc) => effect'[p].pc = pc
  BY EffectGoto
<1>s. \A pc \in E!PCs : E!Goto(p, pc) => effect'[p].seen = effect[p].seen
  BY EffectGoto
<1>c. {"top", "cleaning", "cleaned", "create", "created", "observe", "takeover",
       "confirm", "retire", "moved", "recreate", "reassert", "handover", "letgo",
       "giveup", "asked", "done", "failed", "crashed", "held", "produced", "release"}
          \subseteq E!PCs
  BY DEF E!PCs, E!Ended, E!Critical
<1>d. \A owner : E!IsDead(owner) =>
         /\ Gone(owner) /\ owner # Nothing
         /\ owner \in Namesakes => effect[owner].pc \in {"done", "failed", "crashed"}
  BY EffectDead DEF E!IsDead, Gone
<1>o. E!Owning = {"held", "produced", "release", "created", "reassert", "handover"}
  BY DEF E!Owning, E!Critical
<1>u. \A q \in Namesakes : q # p /\ helper[q] = "marked" => helper[p] # "marked"
  BY DEF E!GuardHeld,
     E!Guarding \* No one else takes the lock away that a takeover is about to rename.
<1>q. ASSUME NEW q \in Namesakes, q # p
      PROVE  /\ effect'[q].pc \in {"takeover", "confirm", "retire", "moved"}
                => Gone(effect'[q].seen)
             /\ effect'[q].pc \in {"confirm", "retire", "moved", "recreate", "reassert"}
                => helper'[q] = "marked"
             /\ effect'[q].pc = "retire" => lock' = effect'[q].seen
             /\ effect'[q].pc = "moved" => moved'[q] = effect'[q].seen
  <2>1. effect[q].pc = "retire" => lock' = lock
    <3> SUFFICES ASSUME effect[q].pc = "retire" PROVE lock' = lock
      OBVIOUS
    <3>0. E!IsDead(lock) /\ helper[q] = "marked"
      BY <1>q DEF E!TakeoverGuarded
    <3>1. lock # Nothing /\ helper[p] # "marked" /\ (lock = p => effect[p].pc \notin E!Owning)
      BY <3>0, <1>q, <1>d, <1>u, <1>o
    <3>2. E!Create(p) => lock' = lock
      BY <3>1 DEF E!Create
    <3>3. ~E!Retire(p) /\ ~E!Moved(p) /\ ~E!Recreate(p) /\ ~E!Reassert(p)
      BY <3>1 DEF E!Retire, E!Moved, E!Recreate, E!Reassert, E!TakeoverGuarded
    <3>4. ~E!Created(p) /\ ~E!Release(p)
      BY <3>1, <1>o DEF E!Created, E!Release, E!LockOwned
    <3>5. QED
      BY <3>2, <3>3, <3>4, EffectQuiet
  <2>2. QED
    BY <2>1, <1>q, <1>f, <1>d DEF E!TakeoverGuarded \* The process of the step itself.
<1>p. ASSUME effect'[p].pc \in {"takeover", "confirm", "retire", "moved"}
                => Gone(effect'[p].seen),
             effect'[p].pc \in {"confirm", "retire", "moved", "recreate", "reassert"}
                => helper'[p] = "marked",
             effect'[p].pc = "retire" => lock' = effect'[p].seen,
             effect'[p].pc = "moved" => moved'[p] = effect'[p].seen
      PROVE  E!TakeoverGuarded'
  BY <1>p, <1>q DEF E!TakeoverGuarded, E!IsDead, Gone
<1>1. CASE E!HelperSteps(p) \/ E!HelperKilled(p)
  <2>1. effect' = effect /\ lock' = lock /\ moved' = moved
    BY <1>1 DEF E!HelperSteps, E!HelperLocks, E!HelperClears, E!HelperMarks, E!HelperUnmarks,
       E!HelperExits, E!HelperKilled
  <2>2. effect[p].pc \in {"confirm", "retire", "moved", "recreate", "reassert"}
        => helper'[p] = "marked"
    <3> SUFFICES ASSUME effect[p].pc \in {"confirm", "retire", "moved", "recreate", "reassert"}
                 PROVE  FALSE
      OBVIOUS
    <3>1. helper[p] = "marked" /\ E!Wants(p)
      BY DEF E!TakeoverGuarded, E!Wants
    <3>2. E!HelperKilled(p)
      BY <1>1, <3>1 DEF E!HelperSteps, E!HelperLocks, E!HelperClears, E!HelperMarks,
         E!HelperUnmarks, E!HelperExits
    <3>3. kills' = kills + 1 /\ kills \in Nat
      BY <3>2, EffectQuiet DEF E!HelperKilled
    <3>4. QED
      BY <3>3
  <2>3. QED
    BY <2>1, <2>2, <1>d, <1>p DEF E!TakeoverGuarded
<1>2. CASE E!Timeout(p) \/ E!MarkerStays(p) \/ E!Crash(p)
  <2>1. effect'[p].pc \in {"failed", "crashed"}
    BY <1>2, <1>g, <1>c DEF E!Timeout, E!MarkerStays, E!GiveUp, E!Crash
  <2>2. QED
    BY <2>1, <1>p
<1>3. ASSUME effect'[p].pc \notin {"takeover", "confirm", "retire", "moved", "recreate",
                                "reassert"}
      PROVE  E!TakeoverGuarded'
  BY <1>3, <1>p
<1>4. CASE E!Top(p) \/ E!Clean(p) \/ E!Cleaned(p) \/ E!Create(p) \/ E!Created(p)
  BY <1>4, <1>g, <1>c, <1>3 DEF E!Top, E!Clean, E!Cleaned, E!Create, E!Created
<1>5. CASE E!LetGo(p) \/ E!Ask(p) \/ E!Produce(p) \/ E!Record(p) \/ E!Release(p)
  BY <1>5, <1>g, <1>c, <1>3 DEF E!LetGo, E!Ask, E!Produce, E!Record, E!Release
<1>6. CASE E!HelperLost(p)
  BY <1>6, <1>g, <1>c, <1>3 DEF E!HelperLost
<1>7. CASE E!Observe(p)
  <2>1. CASE E!Goto(p, "top")
    BY <2>1, <1>g, <1>c, <1>3
  <2>2. CASE /\ lock # Nothing /\ E!Stale(lock)
             /\ effect' = [effect EXCEPT ![p] = [pc |-> "takeover", seen |-> lock]]
    <3>1. effect'[p].pc = "takeover" /\ effect'[p].seen = lock
      BY <2>2, <1>t
    <3>2. E!IsDead(lock)
      <4>1. lock \in Namesakes \union {Dead}
        BY <2>2 DEF E!TypeOK, E!Owners
      <4>2. lock \in Namesakes => effect[lock].pc \in {"failed", "crashed"}
        BY <2>2, <1>o DEF E!LockOwned, E!Stale, E!Alive, E!Ended
      <4>3. QED
        BY <4>1, <4>2 DEF E!IsDead
    <3>3. QED
      BY <3>1, <3>2, <1>d, <1>p
  <2>3. QED
    BY <1>7, <2>1, <2>2 DEF E!Observe
<1>8. CASE E!Takeover(p)
  <2>1. /\ effect'[p].pc = "confirm" /\ effect'[p].seen = effect[p].seen
        /\ helper'[p] = "marked" /\ effect[p].pc = "takeover"
    BY <1>8, <1>g, <1>s, <1>c DEF E!Takeover, E!Held
  <2>2. QED
    BY <2>1, <1>d, <1>p DEF E!TakeoverGuarded
<1>9. CASE E!Confirm(p)
  <2>1. /\ effect[p].pc = "confirm" /\ effect'[p].seen = effect[p].seen
        /\ helper' = helper /\ lock' = lock
        /\ IF lock = effect[p].seen THEN effect'[p].pc = "retire" ELSE effect'[p].pc = "letgo"
    BY <1>9, <1>g, <1>s, <1>c DEF E!Confirm
  <2>2. QED
    BY <2>1, <1>d, <1>p DEF E!TakeoverGuarded
<1>10. CASE E!Retire(p)
  <2>1. effect[p].pc = "retire" /\ helper' = helper /\ lock = effect[p].seen /\ lock # Nothing
    BY <1>10, <1>d DEF E!Retire, E!TakeoverGuarded
  <2>2. /\ effect'[p].pc = "moved" /\ effect'[p].seen = effect[p].seen
        /\ moved'[p] = lock
    BY <1>10, <2>1, <1>g, <1>s, <1>c, <1>t DEF E!Retire
  <2>3. QED
    BY <2>1, <2>2, <1>d, <1>p DEF E!TakeoverGuarded
<1>11. CASE E!Moved(p)
  <2>1. effect[p].pc = "moved" /\ helper' = helper /\ effect'[p].pc = "recreate"
    BY <1>11, <1>g, <1>c DEF E!Moved, E!TakeoverGuarded
  <2>2. QED
    BY <2>1, <1>p DEF E!TakeoverGuarded
<1>12. CASE E!Recreate(p) \/ E!Reassert(p)
  <2>1. /\ effect[p].pc \in {"recreate", "reassert"} /\ helper' = helper
        /\ effect'[p].pc \in {"reassert", "handover", "giveup"}
    BY <1>12, <1>g, <1>c DEF E!Recreate, E!Reassert
  <2>2. QED
    BY <2>1, <1>p DEF E!TakeoverGuarded
<1>13. QED
  BY <1>1, <1>2, <1>4, <1>5, <1>6, <1>7, <1>8, <1>9, <1>10, <1>11, <1>12 DEF E!Steps

\* The record is written once, with the lock, and every answer is what it says.
LEMMA EffectRecordInv ==
    ASSUME E!TypeOK, E!LockOwned, E!ProducedOnce, E!AnswersStand, kills = 0, NEW p \in Namesakes,
           \/ E!HelperSteps(p) \/ E!HelperKilled(p) \/ E!Steps(p)
           \/ E!Timeout(p) \/ E!MarkerStays(p) \/ E!Crash(p)
    PROVE  E!ProducedOnce' /\ E!AnswersStand'
<1>f. \A q \in Namesakes : q # p => effect'[q] = effect[q] /\ answer'[q] = answer[q]
  BY EffectStep
<1>c. {"produced", "release"} \subseteq E!PCs
  BY DEF E!PCs, E!Critical
<1>1. CASE E!Record(p)
  <2>1. /\ effect[p].pc = "produced" /\ produced = Nothing /\ produced' = p
        /\ answer' = [answer EXCEPT ![p] = p] /\ effect'[p].pc = "release"
    BY <1>1, <1>c, EffectGoto DEF E!Record, E!At, E!ProducedOnce
  <2>2. \A q \in Namesakes : answer[q] = Nothing
    BY <2>1 DEF E!AnswersStand
  <2>3. \A q \in Namesakes : q # p => effect[q].pc # "produced"
    BY <2>1 DEF E!LockOwned, E!Owning, E!Critical
  <2>4. QED
    BY <2>1, <2>2, <2>3, <1>f DEF E!ProducedOnce, E!AnswersStand, E!At, E!TypeOK
<1>2. CASE ~E!Record(p)
  <2>1. produced' = produced /\ (answer' = answer \/ (E!Bound(p) /\ answer'[p] = produced))
    BY <1>2, EffectQuiet
  <2>2. E!AnswersStand'
    BY <2>1, <1>f DEF E!AnswersStand
  <2>3. effect'[p].pc = "produced" => effect[p].pc = "produced" \/ produced = Nothing
    <3>1. CASE E!HelperSteps(p) \/ E!HelperKilled(p)
      BY <3>1 DEF E!HelperSteps, E!HelperLocks, E!HelperClears, E!HelperMarks,
         E!HelperUnmarks, E!HelperExits, E!HelperKilled
    <3>2. CASE E!Produce(p)
      BY <3>2, <1>c, EffectGoto DEF E!Produce
    <3>3. ASSUME NEW pc \in E!PCs \ {"produced"}, E!Goto(p, pc) \/ E!Forget(p, pc)
          PROVE  effect'[p].pc # "produced"
      BY <3>3, EffectGoto
    <3>4. {"top", "cleaning", "cleaned", "create", "created", "observe", "takeover",
           "confirm", "retire", "moved", "recreate", "reassert", "handover", "letgo",
           "giveup", "asked", "done", "failed", "crashed", "held", "release"}
              \subseteq E!PCs \ {"produced"}
      BY DEF E!PCs, E!Ended, E!Critical
    <3>5. CASE E!Timeout(p) \/ E!MarkerStays(p) \/ E!Crash(p)
      BY <3>3, <3>4, <3>5 DEF E!Timeout, E!MarkerStays, E!GiveUp, E!Crash
    <3>6. CASE E!Observe(p)
      BY <3>3, <3>4, <3>6 DEF E!Observe, E!TypeOK
    <3>7. CASE \/ E!Top(p) \/ E!Clean(p) \/ E!Cleaned(p) \/ E!Create(p) \/ E!Created(p)
               \/ E!Takeover(p) \/ E!HelperLost(p) \/ E!Confirm(p) \/ E!Retire(p)
      BY <3>3, <3>4, <3>7 DEF E!Top, E!Clean, E!Cleaned, E!Create, E!Created, E!Takeover,
         E!HelperLost, E!Confirm, E!Retire
    <3>8. CASE \/ E!Moved(p) \/ E!Recreate(p) \/ E!Reassert(p) \/ E!LetGo(p) \/ E!Ask(p)
               \/ E!Release(p)
      BY <3>3, <3>4, <3>8 DEF E!Moved, E!Recreate, E!Reassert, E!LetGo, E!Ask, E!Release
    <3>9. QED
      BY <1>2, <3>1, <3>2, <3>5, <3>6, <3>7, <3>8 DEF E!Steps
  <2>4. E!ProducedOnce'
    BY <2>1, <2>3, <1>f DEF E!ProducedOnce, E!At
  <2>5. QED
    BY <2>2, <2>4
<1>3. QED
  BY <1>1, <1>2

\* Every step keeps the invariant.
LEMMA EffectStepInv == E!EffectInv /\ [E!Next]_effectVars => E!EffectInv'
<1> SUFFICES ASSUME E!EffectInv, [E!Next]_effectVars PROVE E!EffectInv'
  OBVIOUS
<1>1. CASE UNCHANGED effectVars
  BY <1>1 DEF effectVars, E!EffectInv, E!TypeOK, E!GuardHeld, E!OwnAnswer, E!TakeoverGuarded,
     E!IsDead, E!LockOwned, E!ProducedOnce, E!AnswersStand, E!At
<1>2. CASE E!Next
  <2>1. PICK p \in Namesakes :
           \/ E!HelperSteps(p) \/ E!HelperKilled(p) \/ E!Steps(p)
           \/ E!Timeout(p) \/ E!MarkerStays(p) \/ E!Crash(p)
    BY <1>2 DEF E!Next
  <2>2. E!TypeOK /\ E!GuardHeld /\ E!OwnAnswer
    BY DEF E!EffectInv
  <2>3. E!TypeOK' /\ E!GuardHeld' /\ E!OwnAnswer'
    BY <2>1, <2>2, EffectStep, EffectGuardInv, EffectAnswerInv
  <2>4. ASSUME kills' = 0
        PROVE  E!TakeoverGuarded' /\ E!LockOwned' /\ E!ProducedOnce' /\ E!AnswersStand'
    <3>1. kills = 0
      BY <2>1, <2>2, <2>4, EffectQuiet
    <3>2. E!TakeoverGuarded /\ E!LockOwned /\ E!ProducedOnce /\ E!AnswersStand
      BY <3>1 DEF E!EffectInv
    <3>3. QED
      BY <2>1, <2>2, <2>4, <3>1, <3>2, EffectTakeoverInv, EffectLockInv, EffectRecordInv
  <2>5. QED
    BY <2>3, <2>4 DEF E!EffectInv
<1>3. QED
  BY <1>1, <1>2

\* What it says of the processes.
LEMMA EffectInvMeans ==
    E!EffectInv => E!MutualExclusion /\ E!AnswersStand /\ E!OwnAnswer /\ E!NothingLeft
<1> SUFFICES ASSUME E!EffectInv
             PROVE  E!MutualExclusion /\ E!AnswersStand /\ E!OwnAnswer /\ E!NothingLeft
  OBVIOUS
<1>1. E!MutualExclusion
  BY DEF E!EffectInv, E!LockOwned, E!Owning, E!MutualExclusion
<1>2. E!NothingLeft
  BY DEF E!EffectInv, E!LockOwned, E!Owning, E!Critical, E!NothingLeft, E!At
<1>3. QED
  BY <1>1, <1>2 DEF E!EffectInv, E!AnswersStand

-----------------------------------------------------------------------------
\* Whatever lock or marker the dead left, however takeovers overlap and wherever
\* processes stop: as long as no helper is killed under its process, an answer is what
\* the record says, and who has one has left no lock behind; an answer is always to
\* the request it was asked for (withEffect, boundEffectOutcome).
THEOREM AnswersAreTrue == LocksSpec => []AnswersTrue
<1>1. LocksInit => E!EffectInv
  BY EffectInitInv DEF LocksInit
<1>2. E!EffectInv /\ [LocksNext]_locksVars => E!EffectInv'
  <2>1. [LocksNext]_locksVars => [E!Next]_effectVars
    BY DEF LocksNext, locksVars
  <2>2. QED
    BY <2>1, EffectStepInv
<1>3. E!EffectInv => AnswersTrue
  BY EffectInvMeans DEF AnswersTrue
<1>4. QED
  BY <1>1, <1>2, <1>3, PTL DEF LocksSpec

-----------------------------------------------------------------------------
(* The lock of the durable store (DurableLock).                            *)

DP == INSTANCE DurableLockProofs WITH NoFile <- Nothing, PidOf <- DistinctPids
RP == INSTANCE DurableLockProofs WITH Procs <- Namesakes, NoFile <- Nothing,
                                      PidOf <- ReusedPids, MaxFiles <- MaxReusedFiles

\* D and DP are the same specification: the same constants, start and steps.
LEMMA DConstants == DP!LockConstants
BY LocksAssumption DEF D!LockConstants, DP!LockConstants, D!Files, DP!Files,
   D!Levels, DP!Levels, D!IsFiniteSet, DP!IsFiniteSet

LEMMA DInit == D!Init => DP!Init
BY DEF D!Init, DP!Init, D!Levels, DP!Levels, D!Files, DP!Files, D!DeadFile,
       DP!DeadFile, D!Unstarted, DP!Unstarted

LEMMA DNext == D!Next => DP!Next
BY DEF D!Next, DP!Next, D!Step, DP!Step, D!Start, DP!Start, D!RecoverFence,
       DP!RecoverFence, D!ObserveFence, DP!ObserveFence, D!ObserveFenced,
       DP!ObserveFenced, D!RetireFence, DP!RetireFence, D!ConfirmFence,
       DP!ConfirmFence, D!ConfirmLock, DP!ConfirmLock, D!RetireLock,
       DP!RetireLock, D!RetireRecovered, DP!RetireRecovered, D!Restore,
       DP!Restore, D!Restored, DP!Restored, D!Publish, DP!Publish, D!Published,
       DP!Published, D!Observe, DP!Observe, D!TimeOut, DP!TimeOut, D!Release,
       DP!Release, D!Snapshot, DP!Snapshot, D!CheckFence, DP!CheckFence,
       D!Recheck, DP!Recheck, D!Reclaim, DP!Reclaim, D!DropFence, DP!DropFence,
       D!ReadRecord, DP!ReadRecord, D!WriteRecord, DP!WriteRecord, D!Exit,
       DP!Exit, D!Crash, DP!Crash, D!Gone, DP!Gone, D!Holding, DP!Holding,
       D!Names, DP!Names, D!Target, DP!Target, D!GiveUp, DP!GiveUp, D!Retire,
       DP!Retire, D!ResumeError, DP!ResumeError, D!Resume, DP!Resume, D!Recovered,
       DP!Recovered, D!AfterFence, DP!AfterFence, D!Throw, DP!Throw,
       D!AfterRelease, DP!AfterRelease, D!ReleaseFrom, DP!ReleaseFrom, D!Again,
       DP!Again, D!Forget, DP!Forget, D!Link, DP!Link, D!Keep, DP!Keep, D!At,
       DP!At, D!Become, DP!Become, D!Stale, DP!Stale, D!ObservesLegacy,
       DP!ObservesLegacy, D!OwnerAlive, DP!OwnerAlive, D!PidAlive, DP!PidAlive,
       D!Alive, DP!Alive, D!Unstarted, DP!Unstarted, D!DeadFile, DP!DeadFile,
       D!Levels, DP!Levels, D!Files, DP!Files

\* And the invariant is the same.
LEMMA DInv == DP!TypeOK /\ DP!LockInv => D!TypeOK /\ D!LockInv
<1>1. DP!TypeOK => D!TypeOK
  BY DEF D!TypeOK, DP!TypeOK, D!Processes, DP!Processes, D!Labels, DP!Labels,
         D!Levels, DP!Levels, D!Files, DP!Files, D!Entries, DP!Entries,
         D!Cardinality, DP!Cardinality
<1>2. DP!LockInv => D!LockInv
  BY DEF D!LockInv, DP!LockInv, D!Sound, DP!Sound, D!Releasing, DP!Releasing,
         D!OwnTarget, DP!OwnTarget, D!Known, DP!Known, D!DeadOwner, DP!DeadOwner,
         D!Alive, DP!Alive, D!Levels, DP!Levels, D!Files, DP!Files, D!Entries,
         DP!Entries
<1>3. QED
  BY <1>1, <1>2

\* And so are R and RP.
LEMMA RConstants == RP!LockConstants
BY LocksAssumption DEF R!LockConstants, RP!LockConstants, R!Files, RP!Files,
   R!Levels, RP!Levels, R!IsFiniteSet, RP!IsFiniteSet

LEMMA RInit == R!Init => RP!Init
BY DEF R!Init, RP!Init, R!Levels, RP!Levels, R!Files, RP!Files, R!DeadFile,
       RP!DeadFile, R!Unstarted, RP!Unstarted

LEMMA RNext == R!Next => RP!Next
BY DEF R!Next, RP!Next, R!Step, RP!Step, R!Start, RP!Start, R!RecoverFence,
       RP!RecoverFence, R!ObserveFence, RP!ObserveFence, R!ObserveFenced,
       RP!ObserveFenced, R!RetireFence, RP!RetireFence, R!ConfirmFence,
       RP!ConfirmFence, R!ConfirmLock, RP!ConfirmLock, R!RetireLock,
       RP!RetireLock, R!RetireRecovered, RP!RetireRecovered, R!Restore,
       RP!Restore, R!Restored, RP!Restored, R!Publish, RP!Publish, R!Published,
       RP!Published, R!Observe, RP!Observe, R!TimeOut, RP!TimeOut, R!Release,
       RP!Release, R!Snapshot, RP!Snapshot, R!CheckFence, RP!CheckFence,
       R!Recheck, RP!Recheck, R!Reclaim, RP!Reclaim, R!DropFence, RP!DropFence,
       R!ReadRecord, RP!ReadRecord, R!WriteRecord, RP!WriteRecord, R!Exit,
       RP!Exit, R!Crash, RP!Crash, R!Gone, RP!Gone, R!Holding, RP!Holding,
       R!Names, RP!Names, R!Target, RP!Target, R!GiveUp, RP!GiveUp, R!Retire,
       RP!Retire, R!ResumeError, RP!ResumeError, R!Resume, RP!Resume, R!Recovered,
       RP!Recovered, R!AfterFence, RP!AfterFence, R!Throw, RP!Throw,
       R!AfterRelease, RP!AfterRelease, R!ReleaseFrom, RP!ReleaseFrom, R!Again,
       RP!Again, R!Forget, RP!Forget, R!Link, RP!Link, R!Keep, RP!Keep, R!At,
       RP!At, R!Become, RP!Become, R!Stale, RP!Stale, R!ObservesLegacy,
       RP!ObservesLegacy, R!OwnerAlive, RP!OwnerAlive, R!PidAlive, RP!PidAlive,
       R!Alive, RP!Alive, R!Unstarted, RP!Unstarted, R!DeadFile, RP!DeadFile,
       R!Levels, RP!Levels, R!Files, RP!Files

\* And the invariant is the same.
LEMMA RInv == RP!TypeOK /\ RP!LockInv => R!TypeOK /\ R!LockInv
<1>1. RP!TypeOK => R!TypeOK
  BY DEF R!TypeOK, RP!TypeOK, R!Processes, RP!Processes, R!Labels, RP!Labels,
         R!Levels, RP!Levels, R!Files, RP!Files, R!Entries, RP!Entries,
         R!Cardinality, RP!Cardinality
<1>2. RP!LockInv => R!LockInv
  BY DEF R!LockInv, RP!LockInv, R!Sound, RP!Sound, R!Releasing, RP!Releasing,
         R!OwnTarget, RP!OwnTarget, R!Known, RP!Known, R!DeadOwner, RP!DeadOwner,
         R!Alive, RP!Alive, R!Levels, RP!Levels, R!Files, RP!Files, R!Entries,
         RP!Entries
<1>3. QED
  BY <1>1, <1>2

\* The processes are those whose PIDs are given out again.
Reused == which = "reused"

\* With PIDs that differ, and while an effect is produced, the lock takes the steps
\* of DP, or none.
LEMMA DSteps == ~Reused /\ LocksSpec => DP!Spec /\ [](~Reused)
<1>1. ~Reused /\ LocksInit => DP!Init
  BY DInit DEF LocksInit, Reused
<1>2. ~Reused /\ [LocksNext]_locksVars => (~Reused)' /\ [DP!Next]_(DP!vars)
  BY DNext DEF LocksNext, Reused, locksVars, storeVars, DP!vars
<1>3. QED
  BY <1>1, <1>2, PTL DEF LocksSpec, DP!Spec

\* With PIDs that are given out again, the lock takes the steps
\* of RP, or none.
LEMMA RSteps == Reused /\ LocksSpec => RP!Spec /\ [](Reused)
<1>1. Reused /\ LocksInit => RP!Init
  BY RInit DEF LocksInit, Reused
<1>2. Reused /\ [LocksNext]_locksVars => (Reused)' /\ [RP!Next]_(RP!vars)
  BY RNext DEF LocksNext, Reused, locksVars, storeVars, RP!vars
<1>3. QED
  BY <1>1, <1>2, PTL DEF LocksSpec, RP!Spec

\* A lock of the store that a process relies on has been moved aside by mistake.
Displaced(level) ==
    IF Reused THEN R!Displaced(level) ELSE D!Displaced(level)

LEMMA DisplacedThere ==
    ASSUME NEW level, ~Displaced(level)
    PROVE  /\ ~Reused => ~DP!Displaced(level)
           /\ Reused => ~RP!Displaced(level)
BY DEF Displaced, D!Displaced, DP!Displaced, D!Relies, DP!Relies, D!At, DP!At,
       R!Displaced, RP!Displaced, R!Relies, RP!Relies, R!At, RP!At

LEMMA DMeans ==
    /\ DP!MutualExclusion => D!MutualExclusion
    /\ DP!HoldsOwnLocks => D!HoldsOwnLocks
BY DEF DP!MutualExclusion, D!MutualExclusion, DP!Holding, D!Holding,
       DP!HoldsOwnLocks, D!HoldsOwnLocks, DP!Levels, D!Levels

LEMMA RMeans == RP!MutualExclusion => R!MutualExclusion
BY DEF RP!MutualExclusion, R!MutualExclusion, RP!Holding, R!Holding

\* As long as no owner file that is relied on is moved aside by mistake, one process
\* at a time is between reading and replacing a record, with its own locks if PIDs
\* differ (withLock); and one produces an effect, whatever is moved aside (withEffect).
THEOREM LocksExclude == LocksSpec /\ []~Displaced("owner") => []MutualExclusion
<1>1. ~Reused /\ LocksSpec => DP!Spec /\ []~Reused
  BY DSteps
<1>2. DP!Spec => []DP!TypeOK /\ []DP!LockInv
  BY DP!LockInvariance, DConstants
<1>3. DP!Spec /\ []~DP!Displaced("owner") => []DP!MutualExclusion
  BY DP!OwnersExclude, DConstants
<1>4. DP!Spec /\ []~DP!Displaced("owner") => []DP!HoldsOwnLocks
  BY DP!HasOwnLocks, DConstants DEF DistinctPids
<1>5. Reused /\ LocksSpec => RP!Spec /\ []Reused
  BY RSteps
<1>6. RP!Spec => []RP!TypeOK /\ []RP!LockInv
  BY RP!LockInvariance, RConstants
<1>7. RP!Spec /\ []~RP!Displaced("owner") => []RP!MutualExclusion
  BY RP!OwnersExclude, RConstants
<1>8. ~Displaced("owner") => /\ ~Reused => ~DP!Displaced("owner")
                             /\ Reused => ~RP!Displaced("owner")
  BY DisplacedThere
<1>9. LocksSpec => []AnswersTrue
  BY AnswersAreTrue
<1>10. AnswersTrue => E!MutualExclusion
  BY EffectInvMeans DEF AnswersTrue
<1>11. /\ ~Reused
       /\ DP!TypeOK /\ DP!LockInv /\ DP!MutualExclusion /\ DP!HoldsOwnLocks
       /\ E!MutualExclusion
       => MutualExclusion
  BY DInv, DMeans DEF MutualExclusion, Reused
<1>12. /\ Reused /\ RP!TypeOK /\ RP!LockInv /\ RP!MutualExclusion /\ E!MutualExclusion
       => MutualExclusion
  BY RInv, RMeans DEF MutualExclusion, Reused
<1>13. QED
  BY <1>1, <1>2, <1>3, <1>4, <1>5, <1>6, <1>7, <1>8, <1>9, <1>10, <1>11, <1>12, PTL

\* And as long as that holds of one of the two levels, no compare-and-swap overwrites
\* one it has not seen (record-cas).
THEOREM UpdatesAreKept ==
    ASSUME NEW level \in D!Levels
    PROVE  LocksSpec /\ []~Displaced(level) => NoLostUpdate
<1>0. level \in DP!Levels /\ level \in RP!Levels
  BY DEF D!Levels, DP!Levels, RP!Levels
<1>1. ~Reused /\ LocksSpec => DP!Spec /\ []~Reused
  BY DSteps
<1>2. DP!Spec /\ []~DP!Displaced(level) => DP!NoLostUpdate
  BY <1>0, DP!LosesNoUpdate, DConstants
<1>3. Reused /\ LocksSpec => RP!Spec /\ []Reused
  BY RSteps
<1>4. RP!Spec /\ []~RP!Displaced(level) => RP!NoLostUpdate
  BY <1>0, RP!LosesNoUpdate, RConstants
<1>5. ~Displaced(level) => /\ ~Reused => ~DP!Displaced(level)
                           /\ Reused => ~RP!Displaced(level)
  BY DisplacedThere
<1>6. QED
  BY <1>1, <1>2, <1>3, <1>4, <1>5, PTL DEF NoLostUpdate, DP!NoLostUpdate, RP!NoLostUpdate

-----------------------------------------------------------------------------
(* Structured execution (StructuredExecution).  A step of one delivery     *)
(* leaves what the others rely on (Harmless), so that each action has to   *)
(* be looked at for its own delivery only.                                 *)

\* What a step of w leaves to the other deliveries.
Untouched(g) == claim'[g] = claim[g] /\ permit'[g] = permit[g] /\ ran'[g] = ran[g]
Harmless(w) ==
    /\ \A v \in Workers : v # w => run'[v] = run[v] /\ told'[v] = told[v]
    /\ \A g \in Grants : g # GrantOf[w] => Untouched(g)
    /\ \/ Untouched(GrantOf[w])
       \/ run[w].pc \in Executing \/ claim[GrantOf[w]].status = "none"
    /\ \A g \in Grants : claim[g].status = "completed" => claim'[g] = claim[g]
    /\ \A c \in Cases : evidence[c] # "none" => evidence'[c] = evidence[c]
    /\ \A f \in Files : files[f] # None => files'[f] = files[f]

\* A delivery executes only with the claim that it made itself.
Enters(w) ==
    run'[w].pc \in Executing =>
        /\ claim'[GrantOf[w]].status = "claimed"
        /\ run[w].pc \in Executing \/ claim[GrantOf[w]].status = "none"

\* A claim is completed with files that stand, or was completed before.
Completes(w) ==
    \/ claim'[GrantOf[w]].status # "completed"
    \/ claim'[GrantOf[w]] = claim[GrantOf[w]]
    \/ Stands(GrantOf[w])'

LEMMA GrantTypes == \A w \in Workers : GrantOf[w] \in Grants
BY ExecutionAssumption

\* Files that are there are no None.
LEMMA FileIsThere ==
    ASSUME TypeOK, NEW f \in Files, NEW w \in Workers, NEW s \in Statuses,
           files[f] = [by |-> w, status |-> s]
    PROVE  files[f] # None
BY NoneAssumption DEF FileBodies

\* The other deliveries stay where they are.
LEMMA OthersPlaced ==
    ASSUME Inv, NEW w \in Workers, Harmless(w), NEW v \in Workers, v # w
    PROVE  Placed(v)' /\ Kept(v)' /\ Truthful(v)'
<1>1. run'[v] = run[v] /\ told'[v] = told[v]
  BY DEF Harmless
<1>2. Placed(v) /\ Kept(v) /\ Truthful(v) /\ OneExecutor
  BY DEF Inv, SingleUse, ResultsStand
<1>3. run[v].pc \in Executing => Untouched(GrantOf[v])
  BY <1>2, GrantTypes DEF Harmless, OneExecutor, Status
<1>4. claim[GrantOf[v]].status = "completed" => claim'[GrantOf[v]] = claim[GrantOf[v]]
  BY GrantTypes DEF Harmless
<1>5. Placed(v)'
  BY <1>1, <1>2, <1>3, <1>4 DEF Placed, At, Permit, Status, Executing, Untouched
<1>6. Kept(v)'
  <2>1. SUFFICES ASSUME run[v].pc \in Executing PROVE Kept(v)'
    BY <1>1 DEF Kept
  <2>2. \A c \in Cases : c < run[v].case => evidence'[c] = evidence[c] /\ evidence[c] # "none"
    BY <1>2, <2>1 DEF Harmless, Kept
  <2>3. At(v, "files") => \A f \in Files : f < run[v].file => files'[f] = files[f]
    <3>1. SUFFICES ASSUME At(v, "files"), NEW f \in Files, f < run[v].file
                   PROVE  files[f] # None
      BY DEF Harmless
    <3>2. files[f] = File(v)
      BY <1>2, <2>1, <3>1 DEF Kept
    <3>3. QED
      BY <3>2, FileIsThere DEF Inv, File, Aggregate, Statuses
  <2>4. QED
    BY <1>1, <1>2, <2>1, <2>2, <2>3 DEF Kept, At, File
<1>7. Truthful(v)'
  BY <1>1, <1>2, <1>4 DEF Truthful
<1>8. QED
  BY <1>5, <1>6, <1>7

\* A claim that was completed stands.
LEMMA StillStands ==
    ASSUME Inv, NEW w \in Workers, Harmless(w), NEW g \in Grants,
           claim[g].status = "completed", TypeOK'
    PROVE  Stands(g)'
<1>1. Stands(g) /\ claim'[g] = claim[g]
  BY DEF Inv, ResultsStand, Harmless
<1>2. evidence' = evidence
  <2>1. \A c \in Cases : evidence'[c] = evidence[c]
    BY <1>1 DEF Stands, Harmless
  <2>2. evidence \in [Cases -> Verdicts \union {"none"}]
    BY DEF Inv, TypeOK
  <2>3. evidence' \in [Cases -> Verdicts \union {"none"}]
    BY DEF TypeOK
  <2>4. QED
    BY <2>1, <2>2, <2>3
<1>3. PICK v \in Workers : Whole(g, v)
  BY <1>1 DEF Stands
<1>4. \A f \in Files : files'[f] = files[f]
  <2>1. claim[g].result \in Statuses
    BY DEF Inv, TypeOK
  <2>2. \A f \in Files : files[f] # None
    BY <1>3, <2>1, FileIsThere DEF Whole, Inv
  <2>3. QED
    BY <2>2 DEF Harmless
<1>5. Whole(g, v)'
  BY <1>1, <1>3, <1>4 DEF Whole
<1>6. QED
  BY <1>1, <1>2, <1>5 DEF Stands

\* It is enough to look at the delivery that takes the step.
LEMMA OwnStep ==
    ASSUME Inv, NEW w \in Workers, TypeOK', Harmless(w), Enters(w), Completes(w),
           SpentBeforeRun', Placed(w)', Kept(w)', Truthful(w)'
    PROVE  Inv'
<1>1. OneExecutor'
  <2>1. SUFFICES ASSUME NEW u \in Workers, run'[u].pc \in Executing
                 PROVE  /\ claim'[GrantOf[u]].status = "claimed"
                        /\ \A v \in Workers :
                              GrantOf[v] = GrantOf[u] /\ run'[v].pc \in Executing => v = u
    BY DEF OneExecutor, Status
  <2>2. OneExecutor
    BY DEF Inv, SingleUse
  <2>3. \A v \in Workers : v # w /\ run'[v].pc \in Executing =>
            run[v].pc \in Executing /\ claim[GrantOf[v]].status = "claimed"
    BY <2>2 DEF OneExecutor, Harmless, Status
  <2>4. CASE u = w
    BY <2>1, <2>2, <2>3, <2>4 DEF Enters, OneExecutor
  <2>5. CASE u # w
    <3>1. run[u].pc \in Executing /\ claim[GrantOf[u]].status = "claimed"
      BY <2>1, <2>3, <2>5
    <3>2. claim'[GrantOf[u]] = claim[GrantOf[u]]
      BY <2>2, <2>5, <3>1, GrantTypes DEF Harmless, Untouched, OneExecutor
    <3>3. QED
      BY <2>1, <2>2, <2>3, <2>5, <3>1, <3>2 DEF Enters, OneExecutor
  <2>6. QED
    BY <2>4, <2>5
<1>2. \A v \in Workers : Placed(v)' /\ Kept(v)' /\ Truthful(v)'
  BY OthersPlaced
<1>3. \A g \in Grants : Stands(g)'
  <2>1. SUFFICES ASSUME NEW g \in Grants, claim'[g].status = "completed" PROVE Stands(g)'
    BY DEF Stands
  <2>2. CASE claim'[g] = claim[g]
    BY <2>1, <2>2, StillStands
  <2>3. CASE claim'[g] # claim[g]
    BY <2>1, <2>3 DEF Harmless, Untouched, Completes
  <2>4. QED
    BY <2>2, <2>3
<1>4. QED
  BY <1>1, <1>2, <1>3 DEF Inv, SingleUse, ResultsStand
-----------------------------------------------------------------------------
Runs == [pc : PCs, case : 1 .. CaseCount + 1, file : 1 .. 6,
         verdict : [Cases -> Verdicts \union {"none"}]]

\* Only w moves, and to where it may be.
Moves(w) ==
    /\ run' \in [Workers -> Runs]
    /\ told' \in [Workers -> Statuses \union {"none"}]
    /\ \A v \in Workers : v # w => run'[v] = run[v] /\ told'[v] = told[v]

LEMMA Going ==
    ASSUME TypeOK, NEW w \in Workers, NEW pc \in PCs, Goto(w, pc)
    PROVE  /\ run' \in [Workers -> Runs]
           /\ run'[w] = [run[w] EXCEPT !.pc = pc]
           /\ \A v \in Workers : v # w => run'[v] = run[v]
<1>1. run \in [Workers -> Runs]
  BY DEF TypeOK, Runs
<1>2. [run[w] EXCEPT !.pc = pc] \in Runs
  BY <1>1 DEF Runs
<1>3. QED
  BY <1>1, <1>2 DEF Goto

LEMMA Answering ==
    ASSUME TypeOK, NEW w \in Workers, NEW s \in Statuses, Answer(w, s)
    PROVE  /\ told' \in [Workers -> Statuses \union {"none"}]
           /\ told'[w] = s
           /\ \A v \in Workers : v # w => told'[v] = told[v]
BY DEF TypeOK, Answer

LEMMA Judging ==
    ASSUME TypeOK, NEW w \in Workers, NEW verdict \in Verdicts, run[w].case \in Cases,
           Verdict(w, verdict)
    PROVE  /\ run' \in [Workers -> Runs]
           /\ run'[w] = [run[w] EXCEPT !.pc = "evidence", !.verdict[run[w].case] = verdict]
           /\ \A v \in Workers : v # w => run'[v] = run[v]
<1>1. run \in [Workers -> Runs]
  BY DEF TypeOK, Runs
<1>2. "evidence" \in PCs
  BY DEF PCs, Executing
<1>3. [run[w].verdict EXCEPT ![run[w].case] = verdict] \in [Cases -> Verdicts \union {"none"}]
  BY <1>1 DEF Runs
<1>4. [run[w] EXCEPT !.pc = "evidence", !.verdict[run[w].case] = verdict] \in Runs
  BY <1>1, <1>2, <1>3 DEF Runs
<1>5. QED
  BY <1>1, <1>4 DEF Verdict

\* Nothing but the delivery itself changes.
LEMMA QuietStep ==
    ASSUME Inv, NEW w \in Workers, Moves(w),
           UNCHANGED <<plan, claim, permit, ran, receipts, evidence, files, expired>>,
           faults' \in 0 .. MaxFaults,
           run'[w].pc \in Executing => run[w].pc \in Executing,
           Placed(w)', Kept(w)', Truthful(w)'
    PROVE  Inv'
<1>1. TypeOK'
  <2>1. TypeOK
    BY DEF Inv
  <2>2. QED
    BY <2>1 DEF TypeOK, Moves, Runs
<1>2. Harmless(w)
  BY DEF Harmless, Moves, Untouched
<1>3. Enters(w)
  BY DEF Inv, SingleUse, OneExecutor, Enters, Status
<1>4. Completes(w)
  BY DEF Completes
<1>5. SpentBeforeRun'
  BY DEF Inv, SingleUse, SpentBeforeRun
<1>6. QED
  BY <1>1, <1>2, <1>3, <1>4, <1>5, OwnStep

\* A delivery that answers "blocked".
LEMMA Blocking ==
    ASSUME TypeOK, NEW w \in Workers, Block(w)
    PROVE  /\ Moves(w) /\ run'[w] = [run[w] EXCEPT !.pc = "done"] /\ told'[w] = "blocked"
           /\ run'[w].pc = "done"
           /\ Placed(w)' /\ Kept(w)' /\ Truthful(w)'
<1>1. "done" \in PCs /\ "blocked" \in Statuses
  BY DEF PCs, Statuses
<1>2. Moves(w) /\ run'[w] = [run[w] EXCEPT !.pc = "done"] /\ told'[w] = "blocked"
  BY <1>1, Going, Answering DEF Block, Moves
<1>3. run'[w].pc = "done"
  BY <1>2 DEF TypeOK
<1>4. Placed(w)' /\ Kept(w)' /\ Truthful(w)'
  BY <1>2, <1>3 DEF Placed, Kept, Truthful, Executing, At
<1>5. QED
  BY <1>2, <1>3, <1>4

LEMMA BlockInv ==
    ASSUME Inv, NEW w \in Workers, Block(w),
           UNCHANGED <<plan, claim, permit, ran, receipts, evidence, files, expired>>,
           faults' \in 0 .. MaxFaults
    PROVE  Inv'
<1>1. TypeOK
  BY DEF Inv
<1>2. "done" \notin Executing
  BY DEF Executing
<1>3. QED
  BY <1>1, <1>2, Blocking, QuietStep

LEMMA CheckInv ==
    ASSUME Inv, NEW w \in Workers, Check(w), UNCHANGED plan
    PROVE  Inv'
<1>1. TypeOK /\ faults' \in 0 .. MaxFaults
  BY DEF Inv, TypeOK, Check, Others
<1>2. UNCHANGED <<plan, claim, permit, ran, receipts, evidence, files, expired>>
  BY DEF Check, Authority, Written, Others
<1>3. CASE Block(w)
  BY <1>1, <1>2, <1>3, BlockInv
<1>4. CASE Goto(w, "checked") /\ UNCHANGED told
  <2>1. "checked" \in PCs /\ "checked" \notin Executing
    BY DEF PCs, Executing
  <2>2. Moves(w) /\ run'[w] = [run[w] EXCEPT !.pc = "checked"]
    BY <1>1, <1>4, <2>1, Going DEF Moves, TypeOK
  <2>3. run'[w].pc = "checked" /\ run'[w].case = run[w].case /\ run'[w].file = run[w].file
    BY <1>1, <2>2 DEF TypeOK
  <2>4. Placed(w) /\ Truthful(w) /\ run[w].pc = "asked"
    BY DEF Inv, ResultsStand, Check, At
  <2>5. Placed(w)' /\ Kept(w)' /\ Truthful(w)'
    BY <1>2, <1>4, <2>1, <2>3, <2>4 DEF Placed, Kept, Truthful, At
  <2>6. QED
    BY <1>1, <1>2, <2>1, <2>2, <2>3, <2>5, QuietStep
<1>5. QED
  BY <1>3, <1>4 DEF Check

LEMMA GuardInv ==
    ASSUME Inv, NEW w \in Workers, Guard(w), UNCHANGED plan
    PROVE  Inv'
<1>1. TypeOK /\ faults' \in 0 .. MaxFaults /\ GrantOf[w] \in Grants
  BY GrantTypes DEF Inv, TypeOK, Guard, Others
<1>2. UNCHANGED <<plan, permit, ran, receipts, evidence, files, expired, faults>>
  BY DEF Guard, Written, Others
<1>3. Placed(w) /\ Truthful(w) /\ run[w].pc = "checked"
  BY DEF Inv, ResultsStand, Guard, At
<1>4. run[w].case = 1 /\ run[w].file = 1
  BY <1>3 DEF Placed
<1>5. CASE Block(w) /\ UNCHANGED claim
  BY <1>1, <1>2, <1>5, BlockInv
<1>6. CASE Status(w) = "completed" /\ Goto(w, "replay") /\ UNCHANGED <<claim, told>>
  <2>1. "replay" \in PCs /\ "replay" \notin Executing
    BY DEF PCs, Executing
  <2>2. Moves(w) /\ run'[w] = [run[w] EXCEPT !.pc = "replay"]
    BY <1>1, <1>6, <2>1, Going DEF Moves, TypeOK
  <2>3. run'[w].pc = "replay" /\ run'[w].case = 1 /\ run'[w].file = 1
    BY <1>1, <1>4, <2>2 DEF TypeOK
  <2>4. Placed(w)' /\ Kept(w)' /\ Truthful(w)'
    BY <1>3, <1>6, <2>1, <2>3 DEF Placed, Kept, Truthful, At, Status
  <2>5. QED
    BY <1>1, <1>2, <1>6, <2>1, <2>2, <2>3, <2>4, QuietStep
<1>7. CASE Status(w) = "none" /\ Claim(w) /\ Goto(w, "case") /\ UNCHANGED told
  <2>1. "case" \in PCs /\ "case" \in Executing
    BY DEF PCs, Executing
  <2>2. Moves(w) /\ run'[w] = [run[w] EXCEPT !.pc = "case"]
    BY <1>1, <1>7, <2>1, Going DEF Moves, TypeOK
  <2>3. run'[w].pc = "case" /\ run'[w].case = 1 /\ run'[w].file = 1
    BY <1>1, <1>4, <2>2 DEF TypeOK
  <2>4. /\ claim' \in [Grants -> [status : {"none", "claimed", "completed"}, result : Statuses]]
        /\ claim'[GrantOf[w]].status = "claimed"
        /\ \A g \in Grants : g # GrantOf[w] => claim'[g] = claim[g]
    BY <1>1, <1>7 DEF Claim, TypeOK
  <2>5. TypeOK'
    BY <1>1, <1>2, <2>2, <2>4 DEF TypeOK, Moves, Runs
  <2>6. Harmless(w)
    BY <1>2, <1>7, <2>2, <2>4 DEF Harmless, Moves, Untouched, Status
  <2>7. Enters(w) /\ Completes(w)
    BY <1>7, <2>4 DEF Enters, Completes, Status
  <2>8. SpentBeforeRun'
    BY <1>2 DEF Inv, SingleUse, SpentBeforeRun
  <2>9. Placed(w)' /\ Kept(w)'
    BY <2>3 DEF Placed, Kept, At, Cases
  <2>10. Truthful(w)'
    BY <1>3, <1>7 DEF Truthful, Status
  <2>11. QED
    BY <2>5, <2>6, <2>7, <2>8, <2>9, <2>10, OwnStep
<1>8. QED
  BY <1>5, <1>6, <1>7 DEF Guard

LEMMA LoadResultInv ==
    ASSUME Inv, NEW w \in Workers, LoadResult(w), UNCHANGED plan
    PROVE  Inv'
<1>1. TypeOK /\ faults' \in 0 .. MaxFaults /\ GrantOf[w] \in Grants
  BY GrantTypes DEF Inv, TypeOK, LoadResult, Others
<1>2. UNCHANGED <<plan, claim, permit, ran, receipts, evidence, files, expired>>
  BY DEF LoadResult, Authority, Written, Others
<1>3. CASE ~(ValidExecution /\ Recorded(w))
  BY <1>1, <1>2, <1>3, BlockInv DEF LoadResult, Block
<1>4. CASE ValidExecution /\ Recorded(w)
  <2>1. "done" \in PCs /\ "done" \notin Executing
    BY DEF PCs, Executing
  <2> DEFINE s == claim[GrantOf[w]].result
  <2>2. claim[GrantOf[w]] = [status |-> "completed", result |-> s] /\ s \in Statuses
    BY <1>1, <1>4 DEF Recorded, Status, TypeOK
  <2>3. Goto(w, "done") /\ Answer(w, s)
    BY <1>4 DEF LoadResult, Recorded
  <2> HIDE DEF s
  <2>4. Moves(w) /\ run'[w] = [run[w] EXCEPT !.pc = "done"] /\ told'[w] = s
    BY <1>1, <2>1, <2>2, <2>3, Going, Answering DEF Moves
  <2>5. run'[w].pc = "done"
    BY <1>1, <2>4 DEF TypeOK
  <2>6. Placed(w)' /\ Kept(w)' /\ Truthful(w)'
    BY <1>2, <2>1, <2>2, <2>4, <2>5 DEF Placed, Kept, Truthful, At
  <2>7. QED
    BY <1>1, <1>2, <2>1, <2>4, <2>5, <2>6, QuietStep
<1>5. QED
  BY <1>3, <1>4

\* A delivery that has the verdict of its case.
LEMMA Judged ==
    ASSUME TypeOK, NEW w \in Workers, NEW verdict \in Verdicts, run[w].case \in Cases,
           Verdict(w, verdict), run[w].pc \in Executing, run[w].file = 1,
           UNCHANGED <<claim, evidence, files, told>>, Kept(w), Truthful(w)
    PROVE  Moves(w) /\ Placed(w)' /\ Kept(w)' /\ Truthful(w)'
<1>1. /\ Moves(w)
      /\ run'[w] = [run[w] EXCEPT !.pc = "evidence", !.verdict[run[w].case] = verdict]
  BY Judging DEF Moves, TypeOK
<1>2. /\ run'[w].pc = "evidence" /\ run'[w].case = run[w].case /\ run'[w].file = 1
      /\ run'[w].verdict = [run[w].verdict EXCEPT ![run[w].case] = verdict]
      /\ run[w].verdict \in [Cases -> Verdicts \union {"none"}]
  BY <1>1 DEF TypeOK
<1>3. Placed(w)'
  BY <1>2 DEF Placed, At, Verdicts
<1>4. Kept(w)'
  <2>1. \A c \in Cases : c < run[w].case => run'[w].verdict[c] = run[w].verdict[c]
    BY <1>2 DEF Cases
  <2>2. QED
    BY <1>2, <2>1 DEF Kept, At
<1>5. Truthful(w)'
  BY DEF Truthful
<1>6. QED
  BY <1>1, <1>3, <1>4, <1>5

LEMMA SkipInv ==
    ASSUME Inv, NEW w \in Workers, Skip(w), UNCHANGED plan
    PROVE  Inv'
<1>1. /\ TypeOK /\ faults' \in 0 .. MaxFaults
      /\ run[w].pc = "case" /\ run[w].case \in Cases /\ Verdict(w, "skipped")
  BY DEF Inv, TypeOK, Skip, HasCase, At, Others
<1>2. UNCHANGED <<plan, claim, permit, ran, receipts, evidence, files, expired, told>>
  BY DEF Skip, Authority, Written, Others
<1>3. Placed(w) /\ Kept(w) /\ Truthful(w)
  BY DEF Inv, ResultsStand
<1>4. "skipped" \in Verdicts /\ "case" \in Executing /\ run[w].file = 1
  BY <1>1, <1>3 DEF Verdicts, Executing, Placed
<1>5. Moves(w) /\ Placed(w)' /\ Kept(w)' /\ Truthful(w)'
  BY <1>1, <1>2, <1>3, <1>4, Judged
<1>6. QED
  BY <1>1, <1>2, <1>4, <1>5, QuietStep

LEMMA RefuseInv ==
    ASSUME Inv, NEW w \in Workers, Refuse(w), UNCHANGED plan
    PROVE  Inv'
<1>1. faults' \in 0 .. MaxFaults /\ Block(w)
  BY DEF Inv, TypeOK, Refuse, Others
<1>2. UNCHANGED <<plan, claim, permit, ran, receipts, evidence, files, expired>>
  BY DEF Refuse, Authority, Written, Others
<1>3. QED
  BY <1>1, <1>2, BlockInv

LEMMA EndCasesInv ==
    ASSUME Inv, NEW w \in Workers, EndCases(w), UNCHANGED plan
    PROVE  Inv'
<1>1. /\ TypeOK /\ faults' \in 0 .. MaxFaults
      /\ run[w].pc = "case" /\ run[w].case \notin Cases /\ Goto(w, "files")
  BY DEF Inv, TypeOK, EndCases, At, Others
<1>2. UNCHANGED <<plan, claim, permit, ran, receipts, evidence, files, expired, told>>
  BY DEF EndCases, Authority, Written, Others
<1>3. Placed(w) /\ Kept(w) /\ Truthful(w)
  BY DEF Inv, ResultsStand
<1>4. "files" \in PCs /\ "case" \in Executing
  BY DEF PCs, Executing
<1>5. Moves(w) /\ run'[w] = [run[w] EXCEPT !.pc = "files"]
  BY <1>1, <1>2, <1>4, Going DEF Moves, TypeOK
<1>6. /\ run'[w].pc = "files" /\ run'[w].case = run[w].case /\ run'[w].file = run[w].file
      /\ run'[w].verdict = run[w].verdict
  BY <1>1, <1>5 DEF TypeOK
<1>7. run[w].case = CaseCount + 1 /\ run[w].file = 1
  BY <1>1, <1>3, ExecutionAssumption DEF TypeOK, Cases, Placed
<1>8. Placed(w)'
  BY <1>6, <1>7 DEF Placed, At
<1>9. Kept(w)'
  BY <1>1, <1>2, <1>3, <1>4, <1>6, <1>7 DEF Kept, At, Files
<1>10. Truthful(w)'
  BY <1>2, <1>3 DEF Truthful
<1>11. QED
  BY <1>1, <1>2, <1>4, <1>5, <1>8, <1>9, <1>10, QuietStep

LEMMA TellInv ==
    ASSUME Inv, NEW w \in Workers, Tell(w), UNCHANGED plan
    PROVE  Inv'
<1>1. /\ TypeOK /\ faults' \in 0 .. MaxFaults
      /\ run[w].pc = "tell" /\ Goto(w, "done") /\ Answer(w, Aggregate(run[w].verdict))
  BY DEF Inv, TypeOK, Tell, At, Others
<1>2. UNCHANGED <<plan, claim, permit, ran, receipts, evidence, files, expired>>
  BY DEF Tell, Authority, Written, Others
<1>3. claim[GrantOf[w]] = [status |-> "completed", result |-> Aggregate(run[w].verdict)]
  BY <1>1 DEF Inv, Placed, At
<1>4. "done" \in PCs /\ "done" \notin Executing /\ Aggregate(run[w].verdict) \in Statuses
  BY DEF PCs, Executing, Aggregate, Statuses
<1>5. /\ Moves(w) /\ run'[w] = [run[w] EXCEPT !.pc = "done"]
      /\ told'[w] = Aggregate(run[w].verdict)
  BY <1>1, <1>4, Going, Answering DEF Moves
<1>6. run'[w].pc = "done"
  BY <1>1, <1>5 DEF TypeOK
<1>7. Placed(w)' /\ Kept(w)' /\ Truthful(w)'
  BY <1>2, <1>3, <1>4, <1>5, <1>6 DEF Placed, Kept, Truthful, At
<1>8. QED
  BY <1>1, <1>2, <1>4, <1>5, <1>6, <1>7, QuietStep

LEMMA BreakInv ==
    ASSUME Inv, NEW w \in Workers, Break(w), UNCHANGED plan
    PROVE  Inv'
<1>1. faults' \in 0 .. MaxFaults /\ Block(w)
  BY ExecutionAssumption DEF Inv, TypeOK, Break
<1>2. UNCHANGED <<plan, claim, permit, ran, receipts, evidence, files, expired>>
  BY DEF Break, Authority, Written
<1>3. QED
  BY <1>1, <1>2, BlockInv

LEMMA CrashInv ==
    ASSUME Inv, NEW w \in Workers, Crash(w), UNCHANGED plan
    PROVE  Inv'
<1>1. TypeOK /\ faults' \in 0 .. MaxFaults /\ Goto(w, "crashed")
  BY ExecutionAssumption DEF Inv, TypeOK, Crash
<1>2. UNCHANGED <<plan, claim, permit, ran, receipts, evidence, files, expired, told>>
  BY DEF Crash, Authority, Written
<1>3. "crashed" \in PCs /\ "crashed" \notin Executing /\ Truthful(w)
  BY DEF PCs, Executing, Inv, ResultsStand
<1>4. Moves(w) /\ run'[w] = [run[w] EXCEPT !.pc = "crashed"]
  BY <1>1, <1>2, <1>3, Going DEF Moves, TypeOK
<1>5. run'[w].pc = "crashed"
  BY <1>1, <1>4 DEF TypeOK
<1>6. Placed(w)' /\ Kept(w)' /\ Truthful(w)'
  BY <1>2, <1>3, <1>5 DEF Placed, Kept, Truthful, At
<1>7. QED
  BY <1>1, <1>2, <1>3, <1>4, <1>5, <1>6, QuietStep

\* The permits of one grant change, and what is spent stays spent.
Permits(w) ==
    /\ permit' \in [Grants -> [Cases -> {"none", "issued", "consumed", "denied"}]]
    /\ \A g \in Grants : g # GrantOf[w] => permit'[g] = permit[g]
    /\ \A c \in Cases : c # run[w].case => permit'[GrantOf[w]][c] = permit[GrantOf[w]][c]

LEMMA Permitting ==
    ASSUME TypeOK, NEW w \in Workers, run[w].case \in Cases,
           NEW status \in {"none", "issued", "consumed", "denied"}, SetPermit(w, status)
    PROVE  Permits(w) /\ permit'[GrantOf[w]][run[w].case] = status
<1>1. GrantOf[w] \in Grants
  BY GrantTypes
<1>2. permit \in [Grants -> [Cases -> {"none", "issued", "consumed", "denied"}]]
  BY DEF TypeOK
<1>3. permit' = [permit EXCEPT ![GrantOf[w]] =
                    [permit[GrantOf[w]] EXCEPT ![run[w].case] = status]]
  BY DEF SetPermit
<1>4. [permit[GrantOf[w]] EXCEPT ![run[w].case] = status]
        \in [Cases -> {"none", "issued", "consumed", "denied"}]
  BY <1>1, <1>2
<1>5. QED
  BY <1>1, <1>2, <1>3, <1>4 DEF Permits

\* A case that has not run is not marked as run by a permit that changes.
LEMMA StillSpent ==
    ASSUME Inv, NEW w \in Workers, run[w].case \in Cases, Permits(w), UNCHANGED ran,
           \/ permit'[GrantOf[w]][run[w].case] = "consumed"
           \/ Permit(w) # "consumed"
           \/ permit'[GrantOf[w]][run[w].case] = Permit(w)
    PROVE  SpentBeforeRun'
<1>1. SpentBeforeRun /\ GrantOf[w] \in Grants
  BY GrantTypes DEF Inv, SingleUse
<1>2. SUFFICES ASSUME NEW g \in Grants, NEW c \in Cases, ran[g][c] = 1
               PROVE  permit'[g][c] = "consumed"
  BY <1>1 DEF SpentBeforeRun
<1>3. permit[g][c] = "consumed"
  BY <1>1, <1>2 DEF SpentBeforeRun
<1>4. CASE g = GrantOf[w] /\ c = run[w].case
  BY <1>3, <1>4 DEF Permit
<1>5. CASE g # GrantOf[w] \/ c # run[w].case
  BY <1>3, <1>5 DEF Permits
<1>6. QED
  BY <1>4, <1>5

\* A step of an executor changes what belongs to its grant.
LEMMA ExecutorStep ==
    ASSUME Inv, NEW w \in Workers, Moves(w), run[w].pc \in Executing,
           UNCHANGED <<plan, claim, evidence, files, expired, faults>>,
           receipts' \in [Cases -> ReceiptBodies \union {None}],
           permit' \in [Grants -> [Cases -> {"none", "issued", "consumed", "denied"}]],
           ran' \in [Grants -> [Cases -> Nat]],
           \A g \in Grants : g # GrantOf[w] => permit'[g] = permit[g] /\ ran'[g] = ran[g],
           SpentBeforeRun', Placed(w)', Kept(w)', Truthful(w)'
    PROVE  Inv'
<1>1. TypeOK'
  <2>1. TypeOK
    BY DEF Inv
  <2>2. QED
    BY <2>1 DEF TypeOK, Moves, Runs
<1>2. Harmless(w)
  BY DEF Harmless, Moves, Untouched
<1>3. Enters(w)
  BY DEF Inv, SingleUse, OneExecutor, Enters, Status
<1>4. Completes(w)
  BY DEF Completes
<1>5. QED
  BY <1>1, <1>2, <1>3, <1>4, OwnStep

LEMMA AuthorizeInv ==
    ASSUME Inv, NEW w \in Workers, Authorize(w), UNCHANGED plan
    PROVE  Inv'
<1>1. TypeOK /\ run[w].pc = "case" /\ run[w].case \in Cases
  BY DEF Inv, Authorize, HasCase, At
<1>2. UNCHANGED <<plan, claim, ran, receipts, evidence, files, expired, faults>>
  BY DEF Authorize, Written, Others
<1>3. Placed(w) /\ Kept(w) /\ Truthful(w)
  BY DEF Inv, ResultsStand
<1>4. "case" \in Executing /\ "allowed" \in PCs /\ "denied" \in PCs
  BY DEF PCs, Executing
<1>5. Permits(w) /\ SpentBeforeRun'
  <2>1. CASE Allows(w) /\ SetPermit(w, "issued")
    BY <1>1, <1>2, <2>1, Permitting, StillSpent DEF Allows
  <2>2. CASE Deny(w)
    <3>1. CASE SetPermit(w, "denied") /\ Permit(w) = "none"
      BY <1>1, <1>2, <3>1, Permitting, StillSpent
    <3>2. CASE UNCHANGED permit
      <4>1. Permits(w)
        BY <1>1, <3>2 DEF Permits, TypeOK
      <4>2. QED
        BY <1>1, <1>2, <3>2, <4>1, StillSpent DEF Permit
    <3>3. QED
      BY <2>2, <3>1, <3>2 DEF Deny
  <2>3. QED
    BY <2>1, <2>2 DEF Authorize
<1>6. Moves(w) /\ Placed(w)' /\ Kept(w)' /\ Truthful(w)'
  <2>1. CASE Block(w)
    BY <1>1, <2>1, Blocking
  <2>2. ASSUME NEW pc \in {"allowed", "denied"}, Goto(w, pc), UNCHANGED told
        PROVE  Moves(w) /\ Placed(w)' /\ Kept(w)' /\ Truthful(w)'
    <3>1. Moves(w) /\ run'[w] = [run[w] EXCEPT !.pc = pc]
      BY <1>1, <1>4, <2>2, Going DEF Moves, TypeOK
    <3>2. /\ run'[w].pc = pc /\ run'[w].case = run[w].case /\ run'[w].file = run[w].file
          /\ run'[w].verdict = run[w].verdict
      BY <1>1, <3>1 DEF TypeOK
    <3>3. Placed(w)'
      BY <1>1, <1>3, <2>2, <3>2 DEF Placed, At
    <3>4. Kept(w)' /\ Truthful(w)'
      BY <1>1, <1>2, <1>3, <1>4, <2>2, <3>2 DEF Kept, Truthful, At
    <3>5. QED
      BY <3>1, <3>3, <3>4
  <2>3. QED
    BY <2>1, <2>2 DEF Authorize
<1>7. /\ receipts' \in [Cases -> ReceiptBodies \union {None}]
      /\ ran' \in [Grants -> [Cases -> Nat]]
  BY <1>1, <1>2 DEF TypeOK
<1>8. QED
  BY <1>1, <1>2, <1>4, <1>5, <1>6, <1>7, ExecutorStep DEF Permits

LEMMA WriteReceiptInv ==
    ASSUME Inv, NEW w \in Workers, WriteReceipt(w), UNCHANGED plan
    PROVE  Inv'
<1>1. TypeOK /\ run[w].pc \in {"allowed", "denied"} /\ run[w].pc \in Executing
  BY DEF Inv, WriteReceipt, Executing
<1>2. UNCHANGED <<plan, claim, permit, ran, evidence, files, expired, faults>>
  BY DEF WriteReceipt, Authority, Others
<1>3. Placed(w) /\ Kept(w) /\ Truthful(w)
  BY DEF Inv, ResultsStand
<1>4. run[w].case \in Cases /\ run[w].file = 1
  BY <1>1, <1>3 DEF Placed
<1>5. receipts' \in [Cases -> ReceiptBodies \union {None}]
  <2>1. Receipt(w) \in ReceiptBodies
    BY <1>1, GrantTypes DEF Receipt, ReceiptBodies
  <2>2. receipts \in [Cases -> ReceiptBodies \union {None}]
    BY <1>1 DEF TypeOK
  <2>3. receipts' = receipts \/ receipts' = [receipts EXCEPT ![run[w].case] = Receipt(w)]
    BY DEF WriteReceipt
  <2>4. QED
    BY <1>4, <2>1, <2>2, <2>3
<1>6. Moves(w) /\ Placed(w)' /\ Kept(w)' /\ Truthful(w)'
  <2>1. CASE Block(w)
    BY <1>1, <2>1, Blocking
  <2>2. CASE Goto(w, "permitted") /\ UNCHANGED told
    <3>1. "permitted" \in PCs
      BY DEF PCs, Executing
    <3>2. Moves(w) /\ run'[w] = [run[w] EXCEPT !.pc = "permitted"]
      BY <1>1, <2>2, <3>1, Going DEF Moves, TypeOK
    <3>3. /\ run'[w].pc = "permitted" /\ run'[w].case = run[w].case
          /\ run'[w].file = run[w].file /\ run'[w].verdict = run[w].verdict
      BY <1>1, <3>2 DEF TypeOK
    <3>4. Placed(w)'
      BY <1>3, <1>4, <3>3 DEF Placed, At
    <3>5. Kept(w)' /\ Truthful(w)'
      BY <1>1, <1>2, <1>3, <2>2, <3>3 DEF Kept, Truthful, At
    <3>6. QED
      BY <3>2, <3>4, <3>5
  <2>3. CASE Verdict(w, "error") /\ UNCHANGED told
    <3>1. "error" \in Verdicts
      BY DEF Verdicts
    <3>2. QED
      BY <1>1, <1>2, <1>3, <1>4, <2>3, <3>1, Judged
  <2>4. QED
    BY <2>1, <2>2, <2>3 DEF WriteReceipt
<1>7. SpentBeforeRun'
  BY <1>2 DEF Inv, SingleUse, SpentBeforeRun
<1>8. /\ permit' \in [Grants -> [Cases -> {"none", "issued", "consumed", "denied"}]]
      /\ ran' \in [Grants -> [Cases -> Nat]]
  BY <1>1, <1>2 DEF TypeOK
<1>9. QED
  BY <1>1, <1>2, <1>5, <1>6, <1>7, <1>8, ExecutorStep

LEMMA ConsumeInv ==
    ASSUME Inv, NEW w \in Workers, Consume(w), UNCHANGED plan
    PROVE  Inv'
<1>1. TypeOK /\ run[w].pc = "permitted" /\ run[w].pc \in Executing
  BY DEF Inv, Consume, At, Executing
<1>2. UNCHANGED <<plan, claim, ran, receipts, evidence, files, expired, faults, told>>
  BY DEF Consume, Written, Others
<1>3. Placed(w) /\ Kept(w) /\ Truthful(w) /\ SpentBeforeRun /\ GrantOf[w] \in Grants
  BY GrantTypes DEF Inv, ResultsStand, SingleUse
<1>4. run[w].case \in Cases /\ run[w].file = 1
  BY <1>1, <1>3 DEF Placed
<1>5. CASE Verdict(w, "error") /\ UNCHANGED permit
  <2>1. Moves(w) /\ Placed(w)' /\ Kept(w)' /\ Truthful(w)'
    <3>1. "error" \in Verdicts
      BY DEF Verdicts
    <3>2. QED
      BY <1>1, <1>2, <1>3, <1>4, <1>5, <3>1, Judged
  <2>2. faults' \in 0 .. MaxFaults
    BY <1>1, <1>2 DEF TypeOK
  <2>3. QED
    BY <1>1, <1>2, <1>5, <2>1, <2>2, QuietStep
<1>6. CASE Permit(w) = "issued" /\ SetPermit(w, "consumed") /\ Goto(w, "running")
  <2>1. "running" \in PCs
    BY DEF PCs, Executing
  <2>2. Moves(w) /\ run'[w] = [run[w] EXCEPT !.pc = "running"]
    BY <1>1, <1>2, <1>6, <2>1, Going DEF Moves, TypeOK
  <2>3. /\ run'[w].pc = "running" /\ run'[w].case = run[w].case
        /\ run'[w].file = run[w].file /\ run'[w].verdict = run[w].verdict
    BY <1>1, <2>2 DEF TypeOK
  <2>4. Permits(w) /\ permit'[GrantOf[w]][run[w].case] = "consumed"
    BY <1>1, <1>4, <1>6, Permitting
  <2>5. SpentBeforeRun'
    BY <1>2, <1>4, <2>4, StillSpent
  <2>6. ran[GrantOf[w]][run[w].case] = 0
    <3>1. ran[GrantOf[w]][run[w].case] \in Nat
      BY <1>1, <1>3, <1>4 DEF TypeOK
    <3>2. ran[GrantOf[w]][run[w].case] <= 1 /\ ran[GrantOf[w]][run[w].case] # 1
      BY <1>3, <1>4, <1>6 DEF SpentBeforeRun, Permit
    <3>3. QED
      BY <3>1, <3>2
  <2>7. Placed(w)'
    BY <1>2, <1>3, <1>4, <2>3, <2>4, <2>6 DEF Placed, At, Permit
  <2>8. Kept(w)' /\ Truthful(w)'
    BY <1>1, <1>2, <1>3, <2>3 DEF Kept, Truthful, At
  <2>9. /\ receipts' \in [Cases -> ReceiptBodies \union {None}]
        /\ ran' \in [Grants -> [Cases -> Nat]]
    BY <1>1, <1>2 DEF TypeOK
  <2>10. QED
    BY <1>1, <1>2, <2>2, <2>4, <2>5, <2>7, <2>8, <2>9, ExecutorStep DEF Permits
<1>7. QED
  BY <1>5, <1>6 DEF Consume

LEMMA ExecuteInv ==
    ASSUME Inv, NEW w \in Workers, Execute(w), UNCHANGED plan
    PROVE  Inv'
<1>1. TypeOK /\ run[w].pc = "running" /\ run[w].pc \in Executing
  BY DEF Inv, Execute, At, Executing
<1>2. UNCHANGED <<plan, claim, permit, receipts, evidence, files, expired, faults, told>>
  BY DEF Execute, Written, Others
<1>3. Placed(w) /\ Kept(w) /\ Truthful(w) /\ SpentBeforeRun /\ GrantOf[w] \in Grants
  BY GrantTypes DEF Inv, ResultsStand, SingleUse
<1>4. run[w].case \in Cases /\ run[w].file = 1
  BY <1>1, <1>3 DEF Placed
<1>5. permit[GrantOf[w]][run[w].case] = "consumed" /\ ran[GrantOf[w]][run[w].case] = 0
  BY <1>1, <1>3 DEF Placed, At, Permit
<1>6. Moves(w) /\ Placed(w)' /\ Kept(w)' /\ Truthful(w)'
  <2>1. PICK verdict \in {"passed", "failed", "error"} : Verdict(w, verdict)
    BY DEF Execute
  <2>2. verdict \in Verdicts
    BY DEF Verdicts
  <2>3. QED
    BY <1>1, <1>2, <1>3, <1>4, <2>1, <2>2, Judged
<1>7. /\ ran' \in [Grants -> [Cases -> Nat]]
      /\ ran'[GrantOf[w]][run[w].case] = 1
      /\ \A g \in Grants : g # GrantOf[w] => ran'[g] = ran[g]
      /\ \A c \in Cases : c # run[w].case => ran'[GrantOf[w]][c] = ran[GrantOf[w]][c]
  <2>1. ran \in [Grants -> [Cases -> Nat]]
    BY <1>1 DEF TypeOK
  <2>2. ran' = [ran EXCEPT ![GrantOf[w]] = [ran[GrantOf[w]] EXCEPT ![run[w].case] = 1]]
    BY <1>3, <1>4, <1>5, <2>1 DEF Execute
  <2>3. [ran[GrantOf[w]] EXCEPT ![run[w].case] = 1] \in [Cases -> Nat]
    BY <1>3, <2>1
  <2>4. QED
    BY <1>3, <1>4, <2>1, <2>2, <2>3
<1>8. SpentBeforeRun'
  <2>1. SUFFICES ASSUME NEW g \in Grants, NEW c \in Cases
                 PROVE  ran'[g][c] <= 1 /\ (ran'[g][c] = 1 => permit[g][c] = "consumed")
    BY <1>2 DEF SpentBeforeRun
  <2>2. CASE g = GrantOf[w] /\ c = run[w].case
    BY <1>5, <1>7, <2>2
  <2>3. CASE g # GrantOf[w] \/ c # run[w].case
    <3>1. ran'[g][c] = ran[g][c]
      BY <1>7, <2>3
    <3>2. QED
      BY <1>3, <3>1 DEF SpentBeforeRun
  <2>4. QED
    BY <2>2, <2>3
<1>9. /\ receipts' \in [Cases -> ReceiptBodies \union {None}]
      /\ permit' \in [Grants -> [Cases -> {"none", "issued", "consumed", "denied"}]]
  BY <1>1, <1>2 DEF TypeOK
<1>10. QED
  BY <1>1, <1>2, <1>6, <1>7, <1>8, <1>9, ExecutorStep

LEMMA WriteEvidenceInv ==
    ASSUME Inv, NEW w \in Workers, WriteEvidence(w), UNCHANGED plan
    PROVE  Inv'
<1> DEFINE c == run[w].case
           verdict == run[w].verdict[c]
           ok == evidence[c] \in {"none", verdict}
<1>1. TypeOK /\ run[w].pc = "evidence" /\ run[w].pc \in Executing
  BY DEF Inv, WriteEvidence, At, Executing
<1>2. UNCHANGED <<plan, claim, permit, ran, receipts, files, expired, faults>>
  BY DEF WriteEvidence, Authority, Others
<1>3. Placed(w) /\ Kept(w) /\ Truthful(w)
  BY DEF Inv, ResultsStand
<1>4. c \in Cases /\ run[w].file = 1 /\ verdict \in Verdicts
  BY <1>1, <1>3 DEF Placed, At, TypeOK
<1>5. CASE ~ok
  <2>1. Block(w) /\ UNCHANGED evidence
    <3>1. run' = [run EXCEPT ![w].pc = "done", ![w].case = c]
      BY <1>5 DEF WriteEvidence
    <3>2. run' = [run EXCEPT ![w].pc = "done"]
      BY <1>1, <3>1 DEF TypeOK
    <3>3. QED
      BY <1>5, <3>2 DEF WriteEvidence, Block, Goto, Answer
  <2>2. faults' \in 0 .. MaxFaults
    BY <1>1, <1>2 DEF TypeOK
  <2>3. QED
    BY <1>2, <2>1, <2>2, BlockInv
<1>6. CASE ok
  <2>1. /\ evidence' = [evidence EXCEPT ![c] = verdict]
        /\ run' = [run EXCEPT ![w].pc = "case", ![w].case = c + 1]
        /\ told' = told
    BY <1>6 DEF WriteEvidence
  <2>2. run \in [Workers -> Runs] /\ run[w] \in Runs
    BY <1>1 DEF TypeOK, Runs
  <2>3. run'[w] = [run[w] EXCEPT !.pc = "case", !.case = c + 1]
    BY <2>1, <2>2
  <2>4. /\ run'[w].pc = "case" /\ run'[w].case = c + 1 /\ run'[w].file = 1
        /\ run'[w].verdict = run[w].verdict
    BY <1>4, <2>2, <2>3 DEF Runs
  <2>5. Moves(w)
    <3>1. "case" \in PCs /\ c + 1 \in 1 .. CaseCount + 1
      BY <1>4, ExecutionAssumption DEF PCs, Executing, Cases
    <3>2. [run[w] EXCEPT !.pc = "case", !.case = c + 1] \in Runs
      BY <2>2, <3>1 DEF Runs
    <3>3. run' = [run EXCEPT ![w] = [run[w] EXCEPT !.pc = "case", !.case = c + 1]]
      BY <2>1, <2>2
    <3>4. QED
      BY <1>1, <2>1, <2>2, <3>2, <3>3 DEF Moves, TypeOK
  <2>6. /\ evidence' \in [Cases -> Verdicts \union {"none"}] /\ evidence'[c] = verdict
        /\ \A d \in Cases : d # c => evidence'[d] = evidence[d]
    BY <1>1, <1>4, <2>1 DEF TypeOK
  <2> HIDE DEF c, verdict, ok
  <2>7. TypeOK'
    BY <1>1, <1>2, <2>5, <2>6 DEF TypeOK, Moves, Runs
  <2>8. Harmless(w)
    BY <1>2, <1>6, <2>5, <2>6 DEF Harmless, Moves, Untouched, ok
  <2>9. Enters(w) /\ Completes(w) /\ SpentBeforeRun'
    BY <1>1, <1>2 DEF Inv, SingleUse, OneExecutor, Enters, Completes, Status, SpentBeforeRun
  <2>10. Placed(w)'
    BY <2>4 DEF Placed, At
  <2>11. Kept(w)'
    <3>1. \A d \in Cases : d < c + 1 => d < c \/ d = c
      BY <1>4 DEF Cases
    <3>2. "case" \in Executing /\ verdict = run[w].verdict[c] /\ c = run[w].case
      BY DEF Executing, verdict, c
    <3>3. \A d \in Cases : d < c => run[w].verdict[d] # "none" /\ evidence[d] = run[w].verdict[d]
      BY <1>1, <1>3, <3>2 DEF Kept
    <3>4. \A d \in Cases : d < c => d # c
      BY <1>4 DEF Cases
    <3>5. \A d \in Cases : d < c + 1 =>
              run[w].verdict[d] # "none" /\ evidence'[d] = run[w].verdict[d]
      BY <1>4, <2>6, <3>1, <3>2, <3>3, <3>4 DEF Verdicts
    <3>6. QED
      BY <2>4, <3>5 DEF Kept, At
  <2>12. Truthful(w)'
    BY <1>2, <1>3, <2>1 DEF Truthful
  <2>13. QED
    BY <2>7, <2>8, <2>9, <2>10, <2>11, <2>12, OwnStep
<1>7. QED
  BY <1>5, <1>6

LEMMA WriteFileInv ==
    ASSUME Inv, NEW w \in Workers, WriteFile(w), UNCHANGED plan
    PROVE  Inv'
<1> DEFINE f == run[w].file
<1>1. TypeOK /\ run[w].pc = "files" /\ run[w].pc \in Executing /\ f \in Files
  BY DEF Inv, WriteFile, At, Executing
<1>2. UNCHANGED <<plan, claim, permit, ran, receipts, evidence, expired, faults>>
  BY DEF WriteFile, Authority, Others
<1>3. Placed(w) /\ Kept(w) /\ Truthful(w)
  BY DEF Inv, ResultsStand
<1>4. CASE Block(w) /\ UNCHANGED files
  <2>1. faults' \in 0 .. MaxFaults
    BY <1>1, <1>2 DEF TypeOK
  <2>2. QED
    BY <1>2, <1>4, <2>1, BlockInv
<1>5. CASE /\ Fits(files[f], File(w)) /\ files' = [files EXCEPT ![f] = File(w)]
           /\ run' = [run EXCEPT ![w].file = f + 1] /\ UNCHANGED told
  <2>1. run \in [Workers -> Runs] /\ run[w] \in Runs
    BY <1>1 DEF TypeOK, Runs
  <2>2. run'[w] = [run[w] EXCEPT !.file = f + 1]
    BY <1>5, <2>1
  <2>3. /\ run'[w].pc = "files" /\ run'[w].case = run[w].case /\ run'[w].file = f + 1
        /\ run'[w].verdict = run[w].verdict
    BY <1>1, <2>1, <2>2 DEF Runs
  <2>4. Moves(w)
    <3>1. f + 1 \in 1 .. 6
      BY <1>1 DEF Files
    <3>2. [run[w] EXCEPT !.file = f + 1] \in Runs
      BY <2>1, <3>1 DEF Runs
    <3>3. run' = [run EXCEPT ![w] = [run[w] EXCEPT !.file = f + 1]]
      BY <1>5, <2>1
    <3>4. QED
      BY <1>1, <1>5, <2>1, <3>2, <3>3 DEF Moves, TypeOK
  <2>5. File(w) \in FileBodies /\ File(w)' = File(w)
    BY <2>3 DEF File, FileBodies, Aggregate, Statuses
  <2>6. /\ files' \in [Files -> FileBodies \union {None}] /\ files'[f] = File(w)
        /\ \A e \in Files : e # f => files'[e] = files[e]
    BY <1>1, <1>5, <2>5 DEF TypeOK
  <2> HIDE DEF f
  <2>7. TypeOK'
    BY <1>1, <1>2, <2>4, <2>6 DEF TypeOK, Moves, Runs
  <2>8. Harmless(w)
    BY <1>2, <1>5, <2>4, <2>6 DEF Harmless, Moves, Untouched, Fits
  <2>9. Enters(w) /\ Completes(w) /\ SpentBeforeRun'
    BY <1>1, <1>2 DEF Inv, SingleUse, OneExecutor, Enters, Completes, Status, SpentBeforeRun
  <2>10. Placed(w)'
    BY <1>1, <1>3, <2>3 DEF Placed, At
  <2>11. Kept(w)'
    <3>1. \A e \in Files : e < f + 1 => e < f \/ e = f
      BY <1>1 DEF Files
    <3>2. \A e \in Files : e < f => files[e] = File(w)
      BY <1>1, <1>3 DEF Kept, At, f
    <3>3. \A e \in Files : e < f + 1 => files'[e] = File(w)
      BY <2>6, <3>1, <3>2
    <3>4. \A d \in Cases : d < run[w].case =>
              run[w].verdict[d] # "none" /\ evidence[d] = run[w].verdict[d]
      BY <1>1, <1>3 DEF Kept
    <3>5. QED
      BY <1>2, <2>3, <2>5, <3>3, <3>4 DEF Kept
  <2>12. Truthful(w)'
    BY <1>2, <1>3, <1>5 DEF Truthful
  <2>13. QED
    BY <2>7, <2>8, <2>9, <2>10, <2>11, <2>12, OwnStep
<1>6. QED
  BY <1>4, <1>5 DEF WriteFile

LEMMA CompleteInv ==
    ASSUME Inv, NEW w \in Workers, Complete(w), UNCHANGED plan
    PROVE  Inv'
<1> DEFINE g == GrantOf[w]
           result == Aggregate(run[w].verdict)
<1>1. TypeOK /\ run[w].pc = "files" /\ run[w].pc \in Executing /\ run[w].file \notin Files
  BY DEF Inv, Complete, At, Executing
<1>2. UNCHANGED <<plan, permit, ran, receipts, evidence, files, expired, faults>>
  BY DEF Complete, Written, Others
<1>3. Placed(w) /\ Kept(w) /\ Truthful(w) /\ g \in Grants
  BY GrantTypes DEF Inv, ResultsStand
<1>4. CASE ~(Status(w) = "claimed" /\ ValidExecution)
  <2>1. Block(w) /\ UNCHANGED claim
    BY <1>4 DEF Complete, Block, Answer
  <2>2. faults' \in 0 .. MaxFaults
    BY <1>1, <1>2 DEF TypeOK
  <2>3. QED
    BY <1>2, <2>1, <2>2, BlockInv
<1>5. CASE Status(w) = "claimed" /\ ValidExecution
  <2>1. /\ Goto(w, "tell") /\ UNCHANGED told
        /\ claim' = [claim EXCEPT ![g] =
                        [status |-> "completed", result |-> files[Execution].status]]
    BY <1>5 DEF Complete
  <2>2. "tell" \in PCs /\ "tell" \notin Executing
    BY DEF PCs, Executing
  <2>3. Moves(w) /\ run'[w] = [run[w] EXCEPT !.pc = "tell"]
    BY <1>1, <2>1, <2>2, Going DEF Moves, TypeOK
  <2>4. /\ run'[w].pc = "tell" /\ run'[w].case = run[w].case
        /\ run'[w].verdict = run[w].verdict
    BY <1>1, <2>3 DEF TypeOK
  <2>5. \A f \in Files : files[f] = [by |-> w, status |-> result]
    <3>1. \A f \in Files : f < run[w].file
      BY <1>1 DEF TypeOK, Files
    <3>2. QED
      BY <1>1, <1>3, <3>1 DEF Kept, At, File
  <2>6. files[Execution].status = result /\ result \in Statuses
    BY <2>5 DEF Execution, Files, Aggregate, Statuses
  <2>7. /\ evidence = run[w].verdict
        /\ \A c \in Cases : evidence[c] # "none"
    <3>1. \A c \in Cases : c < run[w].case
      BY <1>1, <1>3, ExecutionAssumption DEF Placed, Cases
    <3>2. \A c \in Cases : run[w].verdict[c] # "none" /\ evidence[c] = run[w].verdict[c]
      BY <1>1, <1>3, <3>1 DEF Kept
    <3>3. /\ evidence \in [Cases -> Verdicts \union {"none"}]
          /\ run[w].verdict \in [Cases -> Verdicts \union {"none"}]
      BY <1>1 DEF TypeOK
    <3>4. QED
      BY <3>2, <3>3
  <2> HIDE DEF result
  <2>8. /\ claim' \in [Grants -> [status : {"none", "claimed", "completed"}, result : Statuses]]
        /\ claim'[g] = [status |-> "completed", result |-> result]
        /\ \A h \in Grants : h # g => claim'[h] = claim[h]
    BY <1>1, <1>3, <2>1, <2>6 DEF TypeOK
  <2>9. TypeOK'
    BY <1>1, <1>2, <2>3, <2>8 DEF TypeOK, Moves, Runs
  <2>10. Harmless(w)
    BY <1>1, <1>2, <1>5, <2>3, <2>8 DEF Harmless, Moves, Untouched, Status
  <2>11. Enters(w) /\ SpentBeforeRun'
    BY <1>2, <2>2, <2>4 DEF Inv, SingleUse, Enters, SpentBeforeRun
  <2>12. Completes(w)
    <3>1. Aggregate(evidence)' = result
      BY <1>2, <2>7 DEF result
    <3>2. Whole(g, w)'
      BY <1>2, <2>5, <2>8 DEF Whole
    <3>3. Stands(g)'
      BY <1>2, <2>7, <2>8, <3>1, <3>2 DEF Stands
    <3>4. QED
      BY <3>3 DEF Completes
  <2>13. Placed(w)'
    BY <1>1, <1>3, <2>4, <2>8 DEF Placed, At, result
  <2>14. Kept(w)'
    BY <2>2, <2>4 DEF Kept
  <2>15. Truthful(w)'
    BY <1>3, <1>5, <2>1 DEF Truthful, Status
  <2>16. QED
    BY <2>9, <2>10, <2>11, <2>12, <2>13, <2>14, <2>15, OwnStep
<1>6. QED
  BY <1>4, <1>5

LEMMA ExpireInv ==
    ASSUME Inv, NEW g \in Grants, Expire(g), UNCHANGED plan
    PROVE  Inv'
<1>1. UNCHANGED <<plan, claim, permit, ran, receipts, evidence, files, run, told, faults>>
  BY DEF Expire, Authority, Written
<1>2. TypeOK'
  BY <1>1 DEF Inv, TypeOK, Expire
<1>3. QED
  BY <1>1, <1>2
     DEF Inv, SingleUse, OneExecutor, SpentBeforeRun, ResultsStand, Stands, Whole, Truthful,
         Placed, Kept, At, Status, Permit, File
-----------------------------------------------------------------------------
LEMMA InitInv == Init => Inv
<1> SUFFICES ASSUME Init PROVE Inv
  OBVIOUS
<1>1. TypeOK
  <2>1. 1 \in 1 .. CaseCount + 1 /\ 0 \in 0 .. MaxFaults
    BY ExecutionAssumption
  <2>2. "asked" \in PCs /\ "blocked" \in Statuses
    BY DEF PCs, Statuses
  <2>3. QED
    BY <2>1, <2>2 DEF Init, TypeOK
<1>2. \A w \in Workers : run[w].pc = "asked" /\ run[w].case = 1 /\ run[w].file = 1
  BY DEF Init
<1>3. SingleUse
  BY <1>2 DEF Init, SingleUse, OneExecutor, SpentBeforeRun, Executing
<1>4. ResultsStand
  BY DEF Init, ResultsStand, Stands, Truthful
<1>5. \A w \in Workers : Placed(w) /\ Kept(w)
  BY <1>2 DEF Placed, Kept, Executing, At
<1>6. QED
  BY <1>1, <1>3, <1>4, <1>5 DEF Inv

LEMMA StepInv == Inv /\ [Next]_vars => Inv'
<1> SUFFICES ASSUME Inv, [Next]_vars PROVE Inv'
  OBVIOUS
<1>1. CASE UNCHANGED vars
  BY <1>1
     DEF vars, Inv, TypeOK, SingleUse, OneExecutor, SpentBeforeRun, ResultsStand, Stands,
         Whole, Truthful, Placed, Kept, At, Status, Permit, File
<1>2. CASE UNCHANGED plan /\ \E w \in Workers : Steps(w) \/ Break(w) \/ Crash(w)
  BY <1>2, CheckInv, GuardInv, LoadResultInv, SkipInv, RefuseInv, AuthorizeInv,
     WriteReceiptInv, ConsumeInv, ExecuteInv, WriteEvidenceInv, EndCasesInv, WriteFileInv, CompleteInv,
     TellInv, BreakInv, CrashInv
     DEF Steps
<1>3. CASE UNCHANGED plan /\ \E g \in Grants : Expire(g)
  BY <1>3, ExpireInv
<1>4. QED
  BY <1>1, <1>2, <1>3 DEF Next

\* The inductive invariant holds throughout, for any deliveries, grants, plans and
\* faults (M.run and the runtime's replayGuard, authorizeEffect,
\* consumeAuthorizedEffect, writeArtifact and completeReplay).
THEOREM ExecutionInvariance == Spec => []Inv
BY InitInv, StepInv, PTL DEF Spec

\* However many deliveries of a request there are, the effect of a case is produced
\* once at most under a grant, by the delivery that claimed it, after its
\* authorization was spent (replayGuard, consumeAuthorizedEffect).
THEOREM CasesRunOnce == Spec => []SingleUse
<1>1. Inv => SingleUse
  BY DEF Inv
<1>2. QED
  BY <1>1, ExecutionInvariance, PTL

\* A completed claim keeps the whole set of files of one delivery, and a verdict that
\* was answered is the one the claim was completed with (completeReplay, loadResult).
THEOREM AnswersStand == Spec => []ResultsStand
<1>1. Inv => ResultsStand
  BY DEF Inv
<1>2. QED
  BY <1>1, ExecutionInvariance, PTL
================================================================================
