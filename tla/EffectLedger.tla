----------------------------- MODULE EffectLedger -----------------------------
(***************************************************************************)
(* withEffect of environment-factory-runtime.js: an effect is produced     *)
(* under its lock and recorded, and whoever repeats the request is given   *)
(* the record.  The lock is the one of runtime/common.js: a file published *)
(* by a hard link.  The lock of a dead owner is taken over by the process  *)
(* whose helper, runtime/lock-holder.js, holds a system lock and says so   *)
(* with a marker file; a lock is removed by renaming it aside and looking  *)
(* at what was moved.                                                      *)
(***************************************************************************)
EXTENDS Naturals

CONSTANTS
    Procs,       \* processes that each run the effect once
    Ghost,       \* the owner of a lock left by a process long dead
    None,        \* no file, no answer
    Request,     \* what each process asks of the effect
    MaxCrashes,  \* bound: processes that stop in the middle
    MaxKills     \* bound: helpers killed while their process lives

\* What the constants must be, for a configuration.
EffectConstants ==
    /\ Ghost \notin Procs /\ None \notin Procs \union {Ghost}
    /\ DOMAIN Request = Procs
    /\ MaxCrashes \in Nat /\ MaxKills \in Nat

VARIABLES
    lock,     \* the owner written in the lock file
    marker,   \* the owner of the helper written in the marker file
    guard,    \* the owner of the helper that has the system lock
    helper,   \* helper[p]: what the helper of p is doing
    proc,     \* proc[p]: where p is, and the stale owner it observed
    moved,    \* moved[p]: the lock p renamed aside
    record,   \* the effect record: who produced it
    answer,   \* answer[p]: the outcome returned to p
    crashes, kills

lockVars == <<lock, marker, guard, helper, moved>>
vars == <<lock, marker, guard, helper, proc, moved, record, answer, crashes, kills>>

Owners == Procs \union {Ghost, None}
Ended == {"asked", "done", "failed", "crashed"}
Critical == {"held", "produced", "release"}
PCs == Ended \union Critical \union
       {"top", "cleaning", "cleaned", "create", "created", "observe", "takeover",
        "confirm", "retire", "moved", "recreate", "reassert", "handover", "letgo",
        "giveup"}

Init ==
    /\ lock \in {None, Ghost} /\ marker \in {None, Ghost}
    /\ guard = None
    /\ helper = [p \in Procs |-> "none"]
    /\ proc = [p \in Procs |-> [pc |-> "asked", seen |-> None]]
    /\ moved = [p \in Procs |-> None]
    /\ record = None
    /\ answer = [p \in Procs |-> None]
    /\ crashes = 0 /\ kills = 0

At(p, pc) == proc[p].pc = pc
Alive(p) == proc[p].pc \notin Ended
Goto(p, pc) == proc' = [proc EXCEPT ![p].pc = pc]
Forget(p, pc) == proc' = [proc EXCEPT ![p] = [pc |-> pc, seen |-> None]]

\* Mutant: a PID that was given out again counts as its owner.
StaleByPid(owner) == owner # Ghost /\ owner \notin {p \in Procs : Alive(p)}

\* lockOwnerIsStale: PIDs come with the start of the process, so that one given
\* out again is not mistaken for its owner.
Stale(owner) == owner \notin {p \in Procs : Alive(p)}

\* A process keeps its helper's standard input open while it wants the guard.
Wants(p) ==
    proc[p].pc \in {"cleaning", "takeover", "confirm", "retire", "moved",
                    "recreate", "reassert"}
Held(p) == helper[p] = "marked" /\ marker = p

Faults == UNCHANGED <<crashes, kills>>
Ledger == UNCHANGED <<record, answer>>
-----------------------------------------------------------------------------
(* The helper: lock-holder.js behind flock.                                *)

HelperLocks(p) ==
    /\ helper[p] = "starting" /\ guard = None
    /\ guard' = p /\ helper' = [helper EXCEPT ![p] = "guarding"]
    /\ UNCHANGED <<lock, marker, moved, proc>> /\ Ledger /\ Faults

\* Any marker belongs to an earlier helper.
HelperClears(p) ==
    /\ helper[p] = "guarding"
    /\ marker' = None /\ helper' = [helper EXCEPT ![p] = "cleared"]
    /\ UNCHANGED <<lock, guard, moved, proc>> /\ Ledger /\ Faults

HelperMarks(p) ==
    /\ helper[p] = "cleared"
    /\ marker' = p /\ helper' = [helper EXCEPT ![p] = "marked"]
    /\ UNCHANGED <<lock, guard, moved, proc>> /\ Ledger /\ Faults

HelperUnmarks(p) ==
    /\ helper[p] = "marked" /\ ~Wants(p)
    /\ marker' = (IF marker = p THEN None ELSE marker)
    /\ helper' = [helper EXCEPT ![p] = "leaving"]
    /\ UNCHANGED <<lock, guard, moved, proc>> /\ Ledger /\ Faults

HelperExits(p) ==
    /\ helper[p] = "leaving"
    /\ guard' = None /\ helper' = [helper EXCEPT ![p] = "none"]
    /\ UNCHANGED <<lock, marker, moved, proc>> /\ Ledger /\ Faults

\* Killed, it leaves its marker behind; with its process or on its own.
HelperKilled(p) ==
    /\ helper[p] \in {"guarding", "cleared", "marked"}
    /\ \/ Alive(p) /\ kills < MaxKills /\ kills' = kills + 1
       \/ At(p, "crashed") /\ UNCHANGED kills
    /\ guard' = None /\ helper' = [helper EXCEPT ![p] = "none"]
    /\ UNCHANGED <<lock, marker, moved, proc, crashes>> /\ Ledger
-----------------------------------------------------------------------------
(* acquireLock.                                                            *)

StartHelper(p) == helper[p] = "none" /\ helper' = [helper EXCEPT ![p] = "starting"]
Locks == UNCHANGED lockVars

\* A marker says that a takeover is under way, or was.
Top(p) ==
    /\ At(p, "top")
    /\ \/ marker # None /\ StartHelper(p) /\ Goto(p, "cleaning")
       \/ marker = None /\ UNCHANGED helper /\ Goto(p, "create")
    /\ UNCHANGED <<lock, marker, guard, moved>> /\ Ledger /\ Faults

\* Wait for the guard only to have the marker cleared.
Clean(p) ==
    /\ At(p, "cleaning") /\ Held(p) /\ Goto(p, "cleaned")
    /\ Locks /\ Ledger /\ Faults

Cleaned(p) ==
    /\ At(p, "cleaned") /\ marker = None /\ Goto(p, "top")
    /\ Locks /\ Ledger /\ Faults

\* createAtomicLock links a file complete with its owner.
Create(p) ==
    /\ At(p, "create")
    /\ \/ lock = None /\ lock' = p /\ Goto(p, "created")
       \/ lock # None /\ UNCHANGED lock /\ Goto(p, "observe")
    /\ UNCHANGED <<marker, guard, helper, moved>> /\ Ledger /\ Faults

Drop(p) == lock' = (IF lock = p THEN None ELSE lock)

\* The file is read back, and given up again when a takeover has begun.
Created(p) ==
    /\ At(p, "created")
    /\ \/ lock # p /\ UNCHANGED lock /\ Goto(p, "failed")
       \/ lock = p /\ marker # None /\ Drop(p) /\ Goto(p, "top")
       \/ lock = p /\ marker = None /\ UNCHANGED lock /\ Goto(p, "held")
    /\ UNCHANGED <<marker, guard, helper, moved>> /\ Ledger /\ Faults

Observe(p) ==
    /\ At(p, "observe")
    /\ \/ /\ lock = None \/ ~Stale(lock)
          /\ Goto(p, "top") /\ UNCHANGED helper
       \/ /\ lock # None /\ Stale(lock) /\ StartHelper(p)
          /\ proc' = [proc EXCEPT ![p] = [pc |-> "takeover", seen |-> lock]]
    /\ UNCHANGED <<lock, marker, guard, moved>> /\ Ledger /\ Faults

Takeover(p) ==
    /\ At(p, "takeover") /\ Held(p) /\ Goto(p, "confirm")
    /\ Locks /\ Ledger /\ Faults

\* The helper exits before it says that it has the guard.
HelperLost(p) ==
    /\ proc[p].pc \in {"cleaning", "takeover"} /\ helper[p] = "none"
    /\ Forget(p, IF At(p, "takeover") THEN "top" ELSE "failed")
    /\ Locks /\ Ledger /\ Faults

Confirm(p) ==
    /\ At(p, "confirm")
    /\ Goto(p, IF lock = proc[p].seen THEN "retire" ELSE "letgo")
    /\ Locks /\ Ledger /\ Faults

\* retireObservedLockFile: rename, then look at what was renamed.
Retire(p) ==
    /\ At(p, "retire")
    /\ \/ lock = None /\ Goto(p, "letgo") /\ UNCHANGED moved
       \/ /\ lock # None /\ Goto(p, "moved")
          /\ moved' = [moved EXCEPT ![p] = lock]
    /\ lock' = None
    /\ UNCHANGED <<marker, guard, helper>> /\ Ledger /\ Faults

\* What is not the lock observed is linked back, if its place is still free.
Moved(p) ==
    /\ At(p, "moved")
    /\ \/ moved[p] = proc[p].seen /\ UNCHANGED lock /\ Goto(p, "recreate")
       \/ /\ moved[p] # proc[p].seen
          /\ lock' = (IF lock = None THEN moved[p] ELSE lock)
          /\ Goto(p, IF lock = None THEN "letgo" ELSE "giveup")
    /\ moved' = [moved EXCEPT ![p] = None]
    /\ UNCHANGED <<marker, guard, helper>> /\ Ledger /\ Faults

\* Whoever created the lock meanwhile sees the marker and lets it go.
Recreate(p) ==
    /\ At(p, "recreate") /\ lock = None
    /\ lock' = p /\ Goto(p, "reassert")
    /\ UNCHANGED <<marker, guard, helper, moved>> /\ Ledger /\ Faults

Reassert(p) ==
    /\ At(p, "reassert")
    /\ \/ Held(p) /\ UNCHANGED lock /\ Goto(p, "handover")
       \/ ~Held(p) /\ Drop(p) /\ Goto(p, "giveup")
    /\ UNCHANGED <<marker, guard, helper, moved>> /\ Ledger /\ Faults

\* The takeover is over when the marker is seen to be gone.
LetGo(p) ==
    /\ proc[p].pc \in {"handover", "letgo", "giveup"} /\ marker = None
    /\ Forget(p, CASE At(p, "handover") -> "held"
                   [] At(p, "letgo")    -> "top"
                   [] OTHER             -> "failed")
    /\ Locks /\ Ledger /\ Faults

\* A deadline passes.  The process fails and ends, its helper killed; a lock
\* it has already taken stays behind, of a process that is dead.
GiveUp(p) ==
    /\ Forget(p, "failed")
    /\ helper' = [helper EXCEPT ![p] = IF @ = "leaving" THEN @ ELSE "none"]
    /\ guard' = (IF guard = p /\ helper[p] # "leaving" THEN None ELSE guard)
    /\ UNCHANGED <<lock, marker, moved>> /\ Ledger /\ Faults

\* The deadline of acquireLock.
Timeout(p) ==
    /\ \/ proc[p].pc \in {"cleaning", "takeover"} /\ ~Held(p)
       \/ At(p, "recreate") /\ lock # None
       \/ At(p, "observe") /\ lock # None /\ ~Stale(lock)
    /\ GiveUp(p)

\* The two seconds in which the marker must be seen to go.
MarkerStays(p) ==
    /\ proc[p].pc \in {"cleaned", "handover", "letgo", "giveup"} /\ marker # None
    /\ GiveUp(p)
-----------------------------------------------------------------------------
(* withEffect.                                                             *)

\* boundEffectOutcome: a record is for one request only.
Bound(p) == record # None /\ Request[record] = Request[p]
Differs(p) == record # None /\ Request[record] # Request[p]
Give(p) == answer' = [answer EXCEPT ![p] = record]

Ask(p) ==
    /\ At(p, "asked")
    /\ \/ Differs(p) /\ Goto(p, "failed") /\ UNCHANGED answer
       \/ Bound(p) /\ Give(p) /\ Goto(p, "done")
       \/ record = None /\ Goto(p, "top") /\ UNCHANGED answer
    /\ Locks /\ Faults /\ UNCHANGED record

\* Mutant: the record is not looked up again with the lock.
ProduceAgain(p) ==
    /\ At(p, "held") /\ Goto(p, "produced")
    /\ Locks /\ Faults /\ Ledger

\* Looked up again with the lock; what produce throws is not recorded.
Produce(p) ==
    /\ At(p, "held")
    /\ \/ record # None /\ Goto(p, "release")
          /\ IF Bound(p) THEN Give(p) ELSE UNCHANGED answer
       \/ record = None /\ Goto(p, "produced") /\ UNCHANGED answer
       \/ record = None /\ Goto(p, "release") /\ UNCHANGED answer
    /\ Locks /\ Faults /\ UNCHANGED record

Record(p) ==
    /\ At(p, "produced")
    /\ record' = p /\ answer' = [answer EXCEPT ![p] = p]
    /\ Goto(p, "release")
    /\ Locks /\ Faults

Release(p) ==
    /\ At(p, "release") /\ Drop(p)
    /\ Goto(p, IF answer[p] = None THEN "failed" ELSE "done")
    /\ UNCHANGED <<marker, guard, helper, moved>> /\ Ledger /\ Faults

Crash(p) ==
    /\ Alive(p) /\ crashes < MaxCrashes
    /\ crashes' = crashes + 1 /\ Forget(p, "crashed")
    /\ Locks /\ Ledger /\ UNCHANGED kills
-----------------------------------------------------------------------------
HelperSteps(p) ==
    HelperLocks(p) \/ HelperClears(p) \/ HelperMarks(p) \/ HelperUnmarks(p) \/ HelperExits(p)
Steps(p) ==
    \/ Top(p) \/ Clean(p) \/ Cleaned(p) \/ Create(p) \/ Created(p) \/ Observe(p)
    \/ Takeover(p) \/ HelperLost(p) \/ Confirm(p) \/ Retire(p) \/ Moved(p) \/ Recreate(p)
    \/ Reassert(p) \/ LetGo(p) \/ Ask(p) \/ Produce(p) \/ Record(p) \/ Release(p)

Next == \E p \in Procs : HelperSteps(p) \/ HelperKilled(p) \/ Steps(p) \/ Timeout(p)
                        \/ MarkerStays(p) \/ Crash(p)

Spec == Init /\ [][Next]_vars
\* The operating system runs every process and every helper.
FairSpec ==
    /\ Spec
    /\ \A p \in Procs : /\ WF_vars(Steps(p)) /\ WF_vars(HelperSteps(p))
                        /\ WF_vars(MarkerStays(p))
-----------------------------------------------------------------------------
\* Every variable keeps its range.
TypeOK ==
    /\ lock \in Owners /\ marker \in Owners /\ guard \in Procs \union {None}
    /\ helper \in [Procs -> {"none", "starting", "guarding", "cleared", "marked", "leaving"}]
    /\ proc \in [Procs -> [pc : PCs, seen : Owners]]
    /\ moved \in [Procs -> Owners]
    /\ record \in Procs \union {None}
    /\ answer \in [Procs -> Procs \union {None}]
    /\ crashes \in 0 .. MaxCrashes /\ kills \in 0 .. MaxKills

\* Whatever lock or marker the dead left, and however takeovers overlap, one live
\* process at a time produces the effect (acquireLock).  Except when a helper is
\* killed under a takeover that goes on without its guard.
MutualExclusion ==
    kills = 0 => \A p, q \in Procs :
        proc[p].pc \in Critical /\ proc[q].pc \in Critical => p = q

\* An answer is what the record says, and the record is never replaced: who
\* repeats the request later is told the same (withEffect).
AnswersStand ==
    kills = 0 => \A p \in Procs : answer[p] # None => answer[p] = record

NothingLeft == kills = 0 => \A p \in Procs : At(p, "done") => lock # p

\* A request is never answered with the record of another request that was given
\* the same effect (boundEffectOutcome).
OwnAnswer == \A p \in Procs : answer[p] # None => Request[answer[p]] = Request[p]

-----------------------------------------------------------------------------
(* The inductive invariant behind them.                                    *)

\* One helper has the system lock, and the marker is its own once it is written.
Guarding == {"guarding", "cleared", "marked", "leaving"}
GuardHeld ==
    \A p \in Procs : /\ guard = p <=> helper[p] \in Guarding
                     /\ helper[p] = "marked" => marker = p

\* Who takes over has the guard all the time, observed the lock of an owner who is
\* dead, and finds it still there; what was renamed aside is that lock.
IsDead(owner) ==
    owner = Ghost \/ owner \in {p \in Procs : proc[p].pc \in {"done", "failed", "crashed"}}
TakeoverGuarded ==
    \A p \in Procs :
        /\ proc[p].pc \in {"takeover", "confirm", "retire", "moved"} => IsDead(proc[p].seen)
        /\ proc[p].pc \in {"confirm", "retire", "moved", "recreate", "reassert"}
           => helper[p] = "marked"
        /\ At(p, "retire") => lock = proc[p].seen
        /\ At(p, "moved") => moved[p] = proc[p].seen

\* A process that has created the lock and goes on with it has it still; who has a
\* lock otherwise failed or crashed with it.
Owning == Critical \union {"created", "reassert", "handover"}
LockOwned ==
    \A p \in Procs : /\ proc[p].pc \in Owning => lock = p
                     /\ lock = p => proc[p].pc \in Owning \union {"failed", "crashed"}

\* What is produced is recorded for the first time.
ProducedOnce == \A p \in Procs : At(p, "produced") => record = None

EffectInv ==
    /\ TypeOK /\ GuardHeld /\ OwnAnswer
    /\ kills = 0 => TakeoverGuarded /\ LockOwned /\ ProducedOnce /\ AnswersStand
-----------------------------------------------------------------------------
Lone(p) == Alive(p) /\ \A q \in Procs \ {p} : ~Alive(q)
OutwaitsTheDead(p) == At(p, "recreate") /\ lock # None /\ Stale(lock)

\* A process that is alone gets through whatever the dead left in whatever state:
\* lock, marker, helper, a lock moved aside (acquireLock).  It does not when it
\* has retired the lock of one dead process and finds another's in its place:
\* it waits then for that one until its own deadline.
LoneGetsThrough ==
    \A p \in Procs : Lone(p) ~> ~Lone(p) \/ OutwaitsTheDead(p)
=============================================================================
