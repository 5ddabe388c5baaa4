------------------------- MODULE DurableLockProofs -------------------------
(***************************************************************************)
(* Proofs about the lock of the durable store (DurableLock), for any       *)
(* number of processes, any PIDs and any crashes: only a process's own     *)
(* lock or a dead process's is ever retired for good, and as long as no    *)
(* lock that is relied on is moved aside by mistake at one of the levels,  *)
(* one process at a time replaces the record and no update is lost.        *)
(***************************************************************************)
EXTENDS DurableLock, FiniteSetTheorems, TLAPS

\* The operators a step is built from: the process p they are applied to in
\* state s is left in state r, sound and relying on no other lock than before.
Outcome(p, s, r) ==
    /\ r \in Processes /\ Sound(p, r)
    /\ r.pc \notin {"unstarted", "exited", "write", "published"}
    /\ r.pc = "read" => r.got["owner"] = path["owner"]
    /\ r.expected = s.expected
    /\ s.releasing => r.releasing
    /\ \A level \in Levels : Relies(r, level) => Relies(s, level)

\* What a process goes by about the locks it took.
Took(p, s) ==
    /\ \A level \in Levels : Known(s.got[level])
    /\ s.got["lock"] # NoFile =>
          /\ s.got["lock"].by = p \/ DeadOwner(s.got["lock"])
          /\ PidOf[s.got["lock"].by] = PidOf[p]
    /\ s.level = "owner" \/ s.releasing => s.got["lock"] # NoFile

LEMMA ForgetSound ==
    ASSUME NEW p \in Procs, NEW s \in Processes, Took(p, s),
           NEW pc \in {"recover", "release", "failed", "done"},
           s.releasing => pc \in Releasing
    PROVE  /\ Forget(s, pc) \in Processes
           /\ (pc = "release" => s.releasing /\ s.got[s.level] # NoFile) => Sound(p, Forget(s, pc))
           /\ Forget(s, pc).pc = pc
           /\ Forget(s, pc).level = s.level
           /\ Forget(s, pc).releasing = s.releasing
           /\ Forget(s, pc).failing = s.failing
           /\ Forget(s, pc).got = s.got
           /\ Forget(s, pc).expected = s.expected
           /\ Forget(s, pc).obs = NoFile /\ Forget(s, pc).snap = NoFile
           /\ Forget(s, pc).moved = NoFile /\ ~Forget(s, pc).reclaiming
<1> DEFINE r == Forget(s, pc)
<1>1. /\ r.pc = pc /\ r.level = s.level /\ r.releasing = s.releasing
      /\ r.failing = s.failing /\ r.obs = NoFile /\ r.snap = NoFile
      /\ r.reclaiming = FALSE /\ r.moved = NoFile /\ r.got = s.got
      /\ r.expected = s.expected
  BY DEF Forget, Unstarted
<1>2. r \in Processes
  <2>1. pc \in Labels /\ NoFile \in Entries /\ s.level \in Levels
        /\ s.releasing \in BOOLEAN /\ s.failing \in BOOLEAN
        /\ s.got \in [Levels -> Entries] /\ s.files \in [Levels -> 0 .. MaxFiles]
        /\ s.expected \in 0 .. Cardinality(Procs)
    BY DEF Labels, Entries, Processes
  <2>2. QED
    BY <2>1 DEF Processes, Forget, Unstarted
<1>3. Known(NoFile)
  BY DEF Known
<1>4. (pc = "release" => s.releasing /\ s.got[s.level] # NoFile) => Sound(p, r)
  BY <1>1, <1>3 DEF Sound, Took, Releasing
<1>5. QED
  BY <1>1, <1>2, <1>4

LEMMA AgainOutcome ==
    ASSUME NEW p \in Procs, NEW s \in Processes, Took(p, s), ~s.releasing,
           s.pc \notin {"unstarted", "exited"}
    PROVE  Outcome(p, s, Again(s))
BY ForgetSound DEF Again, Outcome, Relies, Levels

LEMMA ReleaseFromOutcome ==
    ASSUME NEW p \in Procs, NEW s \in Processes, Took(p, s), ~s.releasing, s.level = "owner"
    PROVE  Outcome(p, s, ReleaseFrom(s)) /\ ReleaseFrom(s).releasing
<1> DEFINE f == Forget(s, "release")
           r == [f EXCEPT !.level = "lock", !.releasing = TRUE]
<1>1. /\ f \in Processes /\ f.pc = "release" /\ f.expected = s.expected /\ f.got = s.got
      /\ f.obs = NoFile /\ f.snap = NoFile /\ f.moved = NoFile /\ ~f.reclaiming
  BY ForgetSound
<1>2. r \in Processes /\ r.pc = "release" /\ r.expected = s.expected /\ r.level = "lock"
      /\ r.releasing /\ r.got = f.got /\ r.obs = f.obs /\ r.snap = f.snap
      /\ r.moved = f.moved /\ r.reclaiming = f.reclaiming
  BY <1>1 DEF Processes, Levels
<1>3. Sound(p, r)
  BY <1>1, <1>2 DEF Sound, Took, Known, Releasing, Levels
<1>4. QED
  BY <1>1, <1>2, <1>3 DEF Outcome, ReleaseFrom, Relies

LEMMA AfterReleaseOutcome ==
    ASSUME NEW p \in Procs, NEW s \in Processes, Took(p, s), s.releasing
    PROVE  Outcome(p, s, AfterRelease(s))
<1>1. CASE s.level = "lock" /\ s.got["owner"] # NoFile
  <2> DEFINE f == Forget(s, "release")
             r == [f EXCEPT !.level = "owner"]
  <2>1. /\ f \in Processes /\ Sound(p, f) /\ f.pc = "release" /\ f.expected = s.expected
        /\ f.level = s.level /\ f.releasing /\ f.got = s.got
    BY <1>1, ForgetSound DEF Releasing, Took
  <2>2. r \in Processes /\ r.pc = "release" /\ r.expected = s.expected /\ r.level = "owner"
        /\ r.releasing /\ r.got = f.got /\ r.obs = f.obs /\ r.snap = f.snap
        /\ r.moved = f.moved /\ r.reclaiming = f.reclaiming
    BY <2>1 DEF Processes, Levels
  <2>3. QED
    <3>1. Sound(p, r)
      BY <1>1, <2>1, <2>2 DEF Sound, Took, Levels, Releasing
    <3>2. AfterRelease(s) = r
      BY <1>1 DEF AfterRelease
    <3>3. QED
      BY <2>1, <2>2, <3>1, <3>2 DEF Outcome, Relies
<1>2. CASE ~(s.level = "lock" /\ s.got["owner"] # NoFile)
  BY <1>2, ForgetSound DEF Outcome, AfterRelease, Relies, Levels, Releasing
<1>3. QED
  BY <1>1, <1>2

\* An error leaves what it finds as sound as it was.
LEMMA ThrowOutcome ==
    ASSUME NEW p \in Procs, NEW s \in Processes, Took(p, s)
    PROVE  Outcome(p, s, Throw(s))
<1> DEFINE failed == [s EXCEPT !.failing = TRUE]
<1>1. /\ failed \in Processes /\ Took(p, failed) /\ failed.releasing = s.releasing
      /\ failed.level = s.level /\ failed.expected = s.expected /\ failed.pc = s.pc
  BY DEF Processes, Took
<1>2. CASE s.releasing
  <2>1. Outcome(p, failed, AfterRelease(failed))
    BY <1>1, <1>2, AfterReleaseOutcome
  <2>2. Throw(s) = AfterRelease(failed)
    BY <1>2 DEF Throw
  <2>3. QED
    BY <1>1, <2>1, <2>2 DEF Outcome, Relies
<1>3. CASE ~s.releasing /\ s.level = "owner"
  <2>1. Outcome(p, failed, ReleaseFrom(failed))
    BY <1>1, <1>3, ReleaseFromOutcome
  <2>2. Throw(s) = ReleaseFrom(failed)
    BY <1>3 DEF Throw
  <2>3. QED
    BY <1>1, <2>1, <2>2 DEF Outcome, Relies
<1>4. CASE ~s.releasing /\ s.level # "owner"
  <2>1. Throw(s) = Forget(failed, "failed")
    BY <1>4 DEF Throw
  <2>2. /\ Throw(s) \in Processes /\ Sound(p, Throw(s)) /\ Throw(s).pc = "failed"
        /\ Throw(s).level = s.level /\ Throw(s).expected = s.expected
    <3> HIDE DEF failed
    <3>1. "failed" \in {"recover", "release", "failed", "done"} /\ ~failed.releasing
      BY <1>1, <1>4
    <3>2. QED
      BY <1>1, <2>1, <3>1, ForgetSound
  <2>3. QED
    BY <1>4, <2>2 DEF Outcome, Relies
<1>5. QED
  BY <1>2, <1>3, <1>4

LEMMA AfterFenceOutcome ==
    ASSUME NEW p \in Procs, NEW s \in Processes, Took(p, s),
           s.pc \notin {"unstarted", "exited"}
    PROVE  Outcome(p, s, AfterFence(s))
BY AfterReleaseOutcome, ThrowOutcome, AgainOutcome DEF AfterFence

LEMMA RecoveredOutcome ==
    ASSUME NEW p \in Procs, NEW s \in Processes, Took(p, s), ~s.releasing,
           s.pc \notin {"unstarted", "exited"}, Known(s.obs), Known(s.moved),
           s.reclaiming => s.obs # NoFile /\ DeadOwner(s.obs)
    PROVE  Outcome(p, s, Recovered(s))
<1> DEFINE pc == IF s.reclaiming THEN "snapshot" ELSE "publish"
           r == Recovered(s)
<1>1. pc \in Labels /\ NoFile \in Entries /\ Known(NoFile)
  BY DEF Labels, Entries, Known
<1>2. /\ r \in Processes /\ r.pc = pc /\ r.level = s.level /\ r.releasing = s.releasing
      /\ r.obs = s.obs /\ r.snap = NoFile /\ r.reclaiming = s.reclaiming
      /\ r.moved = s.moved /\ r.got = s.got /\ r.expected = s.expected
  BY <1>1 DEF Recovered, Processes
<1>3. Sound(p, r)
  BY <1>1, <1>2 DEF Sound, Took
<1>4. QED
  BY <1>2, <1>3 DEF Outcome, Relies, Levels

\* The end of retireObservedPath leads where it was called from.
LEMMA ResumeOutcome ==
    ASSUME NEW p \in Procs, NEW s \in Processes, Sound(p, s), NEW result \in BOOLEAN,
           s.resume # "none", s.pc \notin {"unstarted", "exited"},
           s.releasing => s.resume \in {"reclaimed", "fence-dropped"}
    PROVE  Outcome(p, s, Resume(s, result))
<1> DEFINE base == [s EXCEPT !.moved = NoFile, !.from = "path", !.resume = "none"]
           r == [base EXCEPT !.pc = "publish"]
<1>0. NoFile \in Entries /\ Known(NoFile)
  BY DEF Entries, Known
<1>1. /\ base \in Processes /\ base.pc = s.pc /\ base.level = s.level
      /\ base.releasing = s.releasing /\ base.obs = s.obs /\ base.snap = s.snap
      /\ base.reclaiming = s.reclaiming /\ base.moved = NoFile /\ base.got = s.got
      /\ base.expected = s.expected /\ base.retired = s.retired
  BY <1>0 DEF Processes
<1>2. Took(p, base)
  BY <1>1 DEF Sound, Took
<1>3. ASSUME NEW x, Outcome(p, base, x) PROVE Outcome(p, s, x)
  BY <1>1, <1>3 DEF Outcome, Relies
<1>4. CASE s.resume = "recover-fence"
  <2>1. Resume(s, result) = IF result THEN Recovered(base) ELSE Again(base)
    BY <1>4 DEF Resume
  <2>2. ~base.releasing /\ base.pc \notin {"unstarted", "exited"}
    BY <1>1, <1>4
  <2>3. Outcome(p, base, Again(base))
    BY <1>1, <1>2, <2>2, AgainOutcome
  <2>4. Outcome(p, base, Recovered(base))
    <3>1. /\ Known(base.obs) /\ Known(base.moved)
          /\ base.reclaiming => base.obs # NoFile /\ DeadOwner(base.obs)
      BY <1>0, <1>1 DEF Sound
    <3>2. QED
      BY <1>1, <1>2, <2>2, <3>1, RecoveredOutcome
  <2>5. QED
    BY <1>3, <2>1, <2>3, <2>4
<1>5. CASE s.resume = "recover-lock"
  <2> DEFINE q == [base EXCEPT !.pc = "retire-recovered", !.retired = result]
  <2>1. Resume(s, result) = q
    BY <1>4, <1>5 DEF Resume
  <2>2. /\ q \in Processes /\ q.pc = "retire-recovered" /\ q.level = base.level
        /\ q.releasing = base.releasing /\ q.obs = base.obs /\ q.snap = base.snap
        /\ q.reclaiming = base.reclaiming /\ q.moved = NoFile /\ q.got = base.got
        /\ q.expected = base.expected
    BY <1>1 DEF Processes, Labels
  <2>3. Sound(p, q)
    BY <1>0, <1>1, <1>2, <1>5, <2>2 DEF Sound, Took
  <2>4. QED
    BY <1>1, <1>3, <2>1, <2>2, <2>3 DEF Outcome, Relies, Levels
<1>6. CASE s.resume = "recovered"
  <2>1. Resume(s, result) = IF s.retired THEN Recovered(base) ELSE Again(base)
    BY <1>1, <1>6 DEF Resume
  <2>2. ~base.releasing /\ base.pc \notin {"unstarted", "exited"}
    BY <1>1, <1>6
  <2>3. Outcome(p, base, Again(base))
    BY <1>1, <1>2, <2>2, AgainOutcome
  <2>4. Outcome(p, base, Recovered(base))
    <3>1. /\ Known(base.obs) /\ Known(base.moved)
          /\ base.reclaiming => base.obs # NoFile /\ DeadOwner(base.obs)
      BY <1>0, <1>1 DEF Sound
    <3>2. QED
      BY <1>1, <1>2, <2>2, <3>1, RecoveredOutcome
  <2>5. QED
    BY <1>3, <2>1, <2>3, <2>4
<1>7. CASE s.resume = "reclaimed"
  <2> DEFINE q == [base EXCEPT !.pc = "drop-fence"]
  <2>1. Resume(s, result) = q
    BY <1>7 DEF Resume
  <2>2. /\ q \in Processes /\ q.pc = "drop-fence" /\ q.level = base.level
        /\ q.releasing = base.releasing /\ q.obs = base.obs /\ q.snap = base.snap
        /\ q.reclaiming = base.reclaiming /\ q.moved = NoFile /\ q.got = base.got
        /\ q.expected = base.expected
    BY <1>1 DEF Processes, Labels
  <2>3. Sound(p, q)
    BY <1>0, <1>1, <1>2, <2>2 DEF Sound, Took, Releasing
  <2>4. QED
    BY <1>1, <1>3, <2>1, <2>2, <2>3 DEF Outcome, Relies, Levels
<1>8. CASE s.resume = "fence-dropped"
  <2>1. Resume(s, result) = AfterFence(base)
    BY <1>8 DEF Resume
  <2>2. QED
    BY <1>1, <1>2, <1>3, <2>1, AfterFenceOutcome
<1>9. QED
  BY <1>4, <1>5, <1>6, <1>7, <1>8 DEF Processes

LEMMA ResumeErrorOutcome ==
    ASSUME NEW p \in Procs, NEW s \in Processes, Sound(p, s),
           s.pc \notin {"unstarted", "exited"}
    PROVE  Outcome(p, s, ResumeError(s))
<1>0. NoFile \in Entries /\ Known(NoFile)
  BY DEF Entries, Known
<1>1. CASE s.resume = "reclaimed"
  <2> DEFINE q == [s EXCEPT !.pc = "drop-fence", !.failing = TRUE, !.moved = NoFile]
  <2>1. ResumeError(s) = q
    BY <1>1 DEF ResumeError
  <2>2. /\ q \in Processes /\ q.pc = "drop-fence" /\ q.level = s.level
        /\ q.releasing = s.releasing /\ q.obs = s.obs /\ q.snap = s.snap
        /\ q.reclaiming = s.reclaiming /\ q.moved = NoFile /\ q.got = s.got
        /\ q.expected = s.expected
    BY <1>0 DEF Processes, Labels
  <2>3. Sound(p, q)
    BY <1>0, <2>2 DEF Sound, Releasing
  <2>4. QED
    BY <2>1, <2>2, <2>3 DEF Outcome, Relies, Levels
<1>2. CASE s.resume # "reclaimed"
  <2>1. Took(p, s)
    BY DEF Sound, Took
  <2>2. QED
    BY <1>2, <2>1, ThrowOutcome DEF ResumeError
<1>3. QED
  BY <1>1, <1>2

-----------------------------------------------------------------------------
(* What is dead stays dead.                                                *)

\* A lock that counts as stale is a dead process's: by its owner file, by its
\* PID, which no live process has, or by the owner file beside it.
LEMMA StaleIsDead ==
    ASSUME LockConstants, TypeOK, LockInv, NEW level \in Levels, NEW file \in Files,
           Known(file), Stale(level, file)
    PROVE  DeadOwner(file)
<1>0. file # NoFile
  BY DEF LockConstants
<1>1. ASSUME ~DeadOwner(file) PROVE file.by \in Procs /\ Alive(file.by)
  BY <1>0, <1>1 DEF Known
<1>2. CASE ~OwnerAlive(file)
  BY <1>1, <1>2 DEF OwnerAlive
<1>3. CASE ~PidAlive(PidOf[file.by])
  BY <1>1, <1>3 DEF PidAlive
<1>4. CASE ObservesLegacy(path["owner"], file) /\ ~OwnerAlive(path["owner"])
  <2> DEFINE o == path["owner"]
  <2>1. CASE o.by = Dead /\ file = DeadFile("lock")
    BY <2>1 DEF DeadFile, DeadOwner
  <2>2. CASE o.by \in Procs /\ proc[o.by].got["lock"] = file
    <3>1. file.by = o.by \/ DeadOwner(file)
      BY <1>0, <2>2 DEF LockInv, Sound
    <3>2. ~Alive(o.by)
      BY <1>4, <2>2 DEF OwnerAlive
    <3>3. QED
      BY <1>1, <3>1, <3>2
  <2>3. QED
    BY <1>4, <2>1, <2>2 DEF ObservesLegacy
<1>5. QED
  BY <1>2, <1>3, <1>4 DEF Stale

LEMMA DeadStays ==
    ASSUME TypeOK, NEW p \in Procs, NEW r \in Processes,
           proc' = [proc EXCEPT ![p] = r],
           r.pc # "unstarted", proc[p].pc # "exited"
    PROVE  /\ \A file : DeadOwner(file) => DeadOwner(file)'
           /\ \A file : Known(file) => Known(file)'
           /\ \A q, s : Sound(q, s) => Sound(q, s)'
<1>1. proc \in [Procs -> Processes]
  BY DEF TypeOK
<1>2. ASSUME NEW file, DeadOwner(file) PROVE DeadOwner(file)'
  BY <1>1, <1>2 DEF DeadOwner
<1>3. ASSUME NEW file, Known(file) PROVE Known(file)'
  BY <1>1, <1>2, <1>3 DEF Known, Alive, DeadOwner
<1>4. ASSUME NEW q, NEW s, Sound(q, s) PROVE Sound(q, s)'
  <2>1. OwnTarget(q, s) => OwnTarget(q, s)'
    BY <1>2 DEF OwnTarget
  <2>2. QED
    BY <1>2, <1>3, <1>4, <2>1 DEF Sound
<1>5. QED
  BY <1>2, <1>3, <1>4

\* A step of p to state r keeps the invariant when r is sound and what it put in
\* the directory was known, or is a file it published itself.
LEMMA KeepsLockInv ==
    ASSUME LockConstants, TypeOK, LockInv, NEW p \in Procs, NEW r \in Processes,
           proc' = [proc EXCEPT ![p] = r], Sound(p, r),
           r.pc # "unstarted", proc[p].pc # "exited",
           Alive(p) \/ \A q \in Procs : Alive(q) => PidOf[q] # PidOf[p],
           \A level \in Levels : \E file :
              path'[level] = file /\ (Known(file) \/ (r.pc # "exited" /\ file.by = p)),
           \A level \in Levels : \E file : fence'[level] = file /\ Known(file)
    PROVE  LockInv'
<1>1. proc \in [Procs -> Processes] /\ proc'[p] = r
      /\ \A q \in Procs : q # p => proc'[q] = proc[q]
  BY DEF TypeOK
<1>2. ASSUME NEW file, Known(file) \/ (r.pc # "exited" /\ file.by = p)
      PROVE  Known(file)'
  BY <1>1, <1>2, DeadStays DEF Known, Alive
<1>3. \A level \in Levels : Known(path[level])' /\ Known(fence[level])'
  BY <1>2
<1>4. ASSUME NEW q1 \in Procs, NEW q2 \in Procs, Alive(q1)', Alive(q2)',
             PidOf[q1] = PidOf[q2]
      PROVE  q1 = q2
  BY <1>1, <1>4 DEF LockInv, Alive
<1>5. ASSUME NEW q \in Procs PROVE Sound(q, proc[q])'
  <2>1. Sound(q, proc'[q])
    BY <1>1 DEF LockInv
  <2>2. QED
    BY <2>1, DeadStays
<1>6. QED
  BY <1>3, <1>4, <1>5 DEF LockInv

-----------------------------------------------------------------------------
(* What a step does.                                                       *)

\* A lock only disappears from its name because it is its owner's to release,
\* because its owner is dead, or because it was moved aside by mistake.
Takes(p, r, level) ==
    \/ path'[level] = path[level]
    \/ path[level] = NoFile
    \/ path[level].by = p /\ proc[p].releasing
    \/ DeadOwner(path[level])
    \/ r.pc = "restore" /\ r.from = "path" /\ r.level = level /\ r.moved = path[level]

Directory(p, r) ==
    /\ path' \in [Levels -> Entries] /\ fence' \in [Levels -> Entries]
    /\ \A level \in Levels :
          /\ Takes(p, r, level)
          /\ \E file : path'[level] = file /\ Known(file)
          /\ \E file : fence'[level] = file /\ Known(file)

\* What every step but publishing, reading back, the record's and the end does.
Ordinary(p, r) ==
    /\ Outcome(p, proc[p], r) /\ proc' = [proc EXCEPT ![p] = r]
    /\ Directory(p, r)
    /\ UNCHANGED <<record, crashes>>

LEMMA KeepOrdinary ==
    ASSUME TypeOK, LockInv, NEW p \in Procs, NEW r,
           Outcome(p, proc[p], r), Become(p, r), Keep
    PROVE  Ordinary(p, r)
BY DEF Ordinary, Directory, Takes, TypeOK, LockInv, Become, Keep

LEMMA RetireOrdinary ==
    ASSUME LockConstants, TypeOK, LockInv, NEW p \in Procs,
           NEW from \in {"path", "fence"}, NEW expected,
           NEW resume \in {"recover-fence", "recover-lock", "recovered", "reclaimed",
                           "fence-dropped"},
           proc[p].pc \in {"retire-fence", "retire-lock", "retire-recovered", "reclaim",
                           "drop-fence"},
           proc[p].releasing => resume \in {"reclaimed", "fence-dropped"},
           from = "path" => \/ expected.by = p /\ proc[p].releasing
                            \/ DeadOwner(expected),
           Retire(p, proc[p], from, expected, resume)
    PROVE  \E r : Ordinary(p, r)
<1> DEFINE s == proc[p]
           at == [s EXCEPT !.resume = resume, !.from = from]
           file == (IF from = "path" THEN path ELSE fence)[s.level]
<1>1. s \in Processes /\ Sound(p, s) /\ s.level \in Levels
  BY DEF TypeOK, LockInv, Processes
<1>2. /\ at \in Processes /\ at.pc = s.pc /\ at.level = s.level /\ at.releasing = s.releasing
      /\ at.obs = s.obs /\ at.snap = s.snap /\ at.reclaiming = s.reclaiming
      /\ at.moved = s.moved /\ at.got = s.got /\ at.expected = s.expected
      /\ at.resume = resume /\ at.from = from
  BY <1>1 DEF Processes
<1>3. Sound(p, at)
  BY <1>1, <1>2 DEF Sound, OwnTarget
<1>4. \A x : Outcome(p, at, x) => Outcome(p, s, x)
  BY <1>2 DEF Outcome, Relies
<1>5. Known(NoFile) /\ Known(file) /\ file \in Entries /\ NoFile \in Entries
  BY <1>1 DEF TypeOK, LockInv, Entries, Known
<1>6. \E r : /\ Outcome(p, s, r) /\ proc' = [proc EXCEPT ![p] = r]
             /\ \/ file \in {NoFile, expected}
                \/ r.pc = "restore" /\ r.from = from /\ r.level = s.level /\ r.moved = file
  <2>1. CASE file = NoFile \/ file = expected
    <3>1. PICK result \in BOOLEAN : Become(p, Resume(at, result))
      BY <2>1 DEF Retire
    <3>2. Outcome(p, at, Resume(at, result))
      BY <1>2, <1>3, ResumeOutcome
    <3>3. QED
      BY <1>4, <2>1, <3>1, <3>2 DEF Become
  <2>2. CASE file \notin {NoFile, expected}
    <3> DEFINE r == [at EXCEPT !.pc = "restore", !.moved = file]
    <3>1. Become(p, r)
      BY <2>2 DEF Retire
    <3>2. /\ r \in Processes /\ r.pc = "restore" /\ r.level = s.level /\ r.releasing = s.releasing
          /\ r.obs = s.obs /\ r.snap = s.snap /\ r.reclaiming = s.reclaiming
          /\ r.moved = file /\ r.got = s.got /\ r.expected = s.expected
          /\ r.resume = resume /\ r.from = from
      BY <1>2, <1>5 DEF Processes, Labels
    <3>3. Sound(p, r)
      BY <1>1, <1>5, <2>2, <3>2 DEF Sound, Releasing
    <3>4. Outcome(p, s, r)
      BY <3>2, <3>3 DEF Outcome, Relies, Levels
    <3>5. QED
      BY <3>1, <3>2, <3>4 DEF Become
  <2>3. QED
    BY <2>1, <2>2
<1>7. /\ UNCHANGED <<record, crashes>>
      /\ from = "path" => path' = Link(path, s.level, NoFile) /\ fence' = fence
      /\ from # "path" => fence' = Link(fence, s.level, NoFile) /\ path' = path
  BY DEF Retire
<1>8. PICK r : /\ Outcome(p, s, r) /\ proc' = [proc EXCEPT ![p] = r]
               /\ \/ file \in {NoFile, expected}
                  \/ r.pc = "restore" /\ r.from = from /\ r.level = s.level /\ r.moved = file
  BY <1>6
<1>9. Directory(p, r)
  BY <1>1, <1>5, <1>7, <1>8 DEF Directory, Takes, Link, TypeOK, LockInv
<1>10. QED
  BY <1>7, <1>8, <1>9 DEF Ordinary

\* A step that only goes on, with what it has seen.
LEMMA GoOutcome ==
    ASSUME NEW p \in Procs, NEW s \in Processes, Sound(p, s), NEW r \in Processes,
           s.pc \notin {"unstarted", "exited"},
           r.level = s.level, r.releasing = s.releasing, r.got = s.got,
           r.expected = s.expected, r.moved = s.moved, Known(r.obs), Known(r.snap),
           r.reclaiming => r.obs # NoFile /\ DeadOwner(r.obs),
           r.pc \notin {"unstarted", "exited", "read", "write", "published",
                       "restore", "restored"},
           r.releasing => r.pc \in Releasing, r.pc # "release",
           r.pc \in {"snapshot", "check-fence", "recheck", "reclaim"} =>
              r.releasing \/ r.reclaiming,
           r.releasing /\ r.pc \in {"snapshot", "check-fence", "reclaim"} => OwnTarget(p, s),
           r.pc \in {"observe-fenced", "confirm-fence", "confirm-lock", "retire-lock"} =>
              r.snap # NoFile,
           r.pc = "retire-lock" => DeadOwner(r.snap)
    PROVE  Outcome(p, s, r)
<1>1. OwnTarget(p, s) => OwnTarget(p, r)
  BY DEF OwnTarget
<1>2. Sound(p, r)
  BY <1>1 DEF Sound
<1>3. QED
  BY <1>2 DEF Outcome, Relies

\* Under a name there is a file that is known, or none.
LEMMA Entry ==
    ASSUME TypeOK, LockInv, NEW p \in Procs
    PROVE  /\ proc[p] \in Processes /\ Sound(p, proc[p]) /\ proc[p].level \in Levels
           /\ path[proc[p].level] \in Entries /\ Known(path[proc[p].level])
           /\ fence[proc[p].level] \in Entries /\ Known(fence[proc[p].level])
           /\ NoFile \in Entries /\ Known(NoFile)
           /\ \A file \in Entries : file # NoFile => file \in Files
BY DEF TypeOK, LockInv, Processes, Entries, Known

\* What recoverReclaimFence does until it moves a file.
LEMMA RecoverOrdinary ==
    ASSUME LockConstants, TypeOK, LockInv, NEW p \in Procs,
           \/ RecoverFence(p) \/ ObserveFence(p) \/ ObserveFenced(p)
           \/ ConfirmFence(p) \/ ConfirmLock(p)
    PROVE  \E r : Ordinary(p, r)
<1> DEFINE s == proc[p]
<1>1. /\ s \in Processes /\ Sound(p, s) /\ s.level \in Levels
      /\ path[s.level] \in Entries /\ Known(path[s.level])
      /\ fence[s.level] \in Entries /\ Known(fence[s.level])
      /\ \A file \in Entries : file # NoFile => file \in Files
  BY Entry
<1>2. /\ s.pc \in {"recover", "observe-fence", "observe-fenced", "confirm-fence",
                   "confirm-lock"}
      /\ ~s.releasing /\ Took(p, s) /\ Known(s.obs) /\ Known(s.snap) /\ s.snap \in Entries
      /\ s.reclaiming => s.obs # NoFile /\ DeadOwner(s.obs)
      /\ s.pc \in {"observe-fenced", "confirm-fence", "confirm-lock"} => s.snap # NoFile
  BY <1>1 DEF RecoverFence, ObserveFence, ObserveFenced, ConfirmFence, ConfirmLock, At,
     Sound, Took, Releasing, Processes
<1>3. Outcome(p, s, Again(s))
  BY <1>1, <1>2, AgainOutcome
<1>4. ASSUME NEW pc \in {"observe-fence", "snapshot", "publish", "retire-fence",
                        "confirm-fence", "confirm-lock", "retire-lock"},
             pc = "snapshot" => s.reclaiming,
             pc \in {"confirm-fence", "confirm-lock", "retire-lock"} => s.snap # NoFile,
             pc = "retire-lock" => DeadOwner(s.snap)
      PROVE  Outcome(p, s, [s EXCEPT !.pc = pc])
  <2> DEFINE r == [s EXCEPT !.pc = pc]
  <2>1. /\ r \in Processes /\ r.pc = pc /\ r.level = s.level /\ r.releasing = s.releasing
        /\ r.obs = s.obs /\ r.snap = s.snap /\ r.reclaiming = s.reclaiming
        /\ r.moved = s.moved /\ r.got = s.got /\ r.expected = s.expected
    BY <1>1 DEF Processes, Labels
  <2>2. Outcome(p, s, r)
    <3> HIDE DEF r
    <3>1. QED
      BY <1>1, <1>2, <1>4, <2>1, GoOutcome
  <2>3. QED
    BY <2>2
<1>5. CASE RecoverFence(p)
  <2> DEFINE pc == IF fence[s.level] # NoFile THEN "observe-fence"
                   ELSE IF s.reclaiming THEN "snapshot" ELSE "publish"
  <2>1. Become(p, [s EXCEPT !.pc = pc]) /\ Keep
    BY <1>5 DEF RecoverFence
  <2>2. Outcome(p, s, [s EXCEPT !.pc = pc])
    BY <1>4
  <2>3. QED
    BY <2>1, <2>2, KeepOrdinary
<1>6. CASE ObserveFence(p)
  <2> DEFINE snap == fence[s.level]
             at == [s EXCEPT !.snap = snap]
             r == [at EXCEPT !.pc = "observe-fenced"]
  <2>1. /\ at \in Processes /\ Took(p, at) /\ at.expected = s.expected
        /\ at.releasing = s.releasing /\ at.level = s.level /\ at.pc = s.pc
    BY <1>1, <1>2 DEF Processes, Took
  <2>2. Outcome(p, at, Throw(at))
    BY <2>1, ThrowOutcome
  <2>3. Outcome(p, s, Throw(at))
    BY <2>1, <2>2 DEF Outcome, Relies
  <2>4. /\ r \in Processes /\ r.pc = "observe-fenced" /\ r.level = s.level
        /\ r.releasing = s.releasing /\ r.obs = s.obs /\ r.snap = snap
        /\ r.reclaiming = s.reclaiming /\ r.moved = s.moved /\ r.got = s.got
        /\ r.expected = s.expected
    BY <1>1 DEF Processes, Labels
  <2>5. snap # NoFile => Outcome(p, s, r)
    <3> HIDE DEF r
    <3>1. QED
      BY <1>1, <1>2, <2>4, GoOutcome
  <2>6. Keep /\ (Become(p, Throw(at)) \/ (snap # NoFile /\ Become(p, r)))
    BY <1>6 DEF ObserveFence
  <2>7. QED
    BY <2>3, <2>5, <2>6, KeepOrdinary
<1>7. CASE ObserveFenced(p)
  <2>1. /\ Keep
        /\ \/ Become(p, Again(s))
           \/ \E pc \in {"retire-fence", "confirm-fence"} : Become(p, [s EXCEPT !.pc = pc])
    BY <1>7 DEF ObserveFenced
  <2>2. s.pc = "observe-fenced"
    BY <1>7 DEF ObserveFenced, At
  <2>3. QED
    BY <1>2, <1>3, <1>4, <2>1, <2>2, KeepOrdinary
<1>8. CASE ConfirmFence(p)
  <2>1. Keep /\ (Become(p, Again(s)) \/ Become(p, [s EXCEPT !.pc = "confirm-lock"]))
    BY <1>8 DEF ConfirmFence
  <2>2. s.pc = "confirm-fence"
    BY <1>8 DEF ConfirmFence, At
  <2>3. QED
    BY <1>2, <1>3, <1>4, <2>1, <2>2, KeepOrdinary
<1>9. CASE ConfirmLock(p)
  <2>1. CASE path[s.level] = s.snap /\ Stale(s.level, s.snap)
    <3>1. Keep /\ Become(p, [s EXCEPT !.pc = "retire-lock"])
      BY <1>9, <2>1 DEF ConfirmLock
    <3>2. s.snap # NoFile /\ s.snap \in Files
      BY <1>1, <1>2, <1>9 DEF ConfirmLock, At
    <3>3. DeadOwner(s.snap)
      BY <1>1, <1>2, <2>1, <3>2, StaleIsDead
    <3>4. QED
      BY <1>4, <3>1, <3>2, <3>3, KeepOrdinary
  <2>2. CASE ~(path[s.level] = s.snap /\ Stale(s.level, s.snap))
    <3>1. Keep /\ Become(p, Again(s))
      BY <1>9, <2>2 DEF ConfirmLock
    <3>2. QED
      BY <1>3, <3>1, KeepOrdinary
  <2>3. QED
    BY <2>1, <2>2
<1>10. QED
  BY <1>5, <1>6, <1>7, <1>8, <1>9

\* What is retired is a fence, one's own lock, or a dead process's.
LEMMA RetireOutcomes ==
    ASSUME LockConstants, TypeOK, LockInv, NEW p \in Procs,
           \/ RetireFence(p) \/ RetireLock(p) \/ RetireRecovered(p)
           \/ Reclaim(p) \/ DropFence(p)
    PROVE  \E r : Ordinary(p, r)
<1> DEFINE s == proc[p]
<1>1. s \in Processes /\ Sound(p, s)
  BY Entry
<1>2. CASE RetireFence(p)
  <2>1. ~s.releasing /\ s.pc = "retire-fence"
    BY <1>1, <1>2 DEF RetireFence, At, Sound, Releasing
  <2>2. Retire(p, s, "fence", s.snap, "recover-fence")
    BY <1>2 DEF RetireFence
  <2>3. QED
    BY <2>1, <2>2, RetireOrdinary
<1>3. CASE RetireLock(p)
  <2>1. ~s.releasing /\ s.pc = "retire-lock" /\ DeadOwner(s.snap)
    BY <1>1, <1>3 DEF RetireLock, At, Sound, Releasing
  <2>2. Retire(p, s, "path", s.snap, "recover-lock")
    BY <1>3 DEF RetireLock
  <2>3. QED
    BY <2>1, <2>2, RetireOrdinary
<1>4. CASE RetireRecovered(p)
  <2>1. ~s.releasing /\ s.pc = "retire-recovered"
    BY <1>1, <1>4 DEF RetireRecovered, At, Sound, Releasing
  <2>2. Retire(p, s, "fence", s.snap, "recovered")
    BY <1>4 DEF RetireRecovered
  <2>3. QED
    BY <2>1, <2>2, RetireOrdinary
<1>5. CASE Reclaim(p)
  <2>1. s.pc = "reclaim" /\ Retire(p, s, "path", Target(s), "reclaimed")
    BY <1>5 DEF Reclaim, At
  <2>2. (Target(s).by = p /\ s.releasing) \/ DeadOwner(Target(s))
    BY <1>1, <2>1 DEF Sound, OwnTarget, Target
  <2>3. QED
    BY <2>1, <2>2, RetireOrdinary
<1>6. CASE DropFence(p)
  <2>1. s.pc = "drop-fence" /\ Retire(p, s, "fence", s.snap, "fence-dropped")
    BY <1>6 DEF DropFence, At
  <2>2. QED
    BY <2>1, RetireOrdinary
<1>7. QED
  BY <1>2, <1>3, <1>4, <1>5, <1>6

\* A file moved aside by mistake is linked back, or stays aside.
LEMMA RestoreOrdinary ==
    ASSUME LockConstants, TypeOK, LockInv, NEW p \in Procs, Restore(p) \/ Restored(p)
    PROVE  \E r : Ordinary(p, r)
<1> DEFINE s == proc[p]
           entries == IF s.from = "path" THEN path ELSE fence
<1>1. /\ s \in Processes /\ Sound(p, s) /\ s.level \in Levels
      /\ s.moved \in Entries /\ Known(s.moved) /\ s.from \in {"path", "fence"}
  BY Entry DEF Sound, Processes
<1>2. s.pc \in {"restore", "restored"}
  BY DEF Restore, Restored, At
<1>3. s.resume # "none" /\ (s.releasing => s.resume \in {"reclaimed", "fence-dropped"})
  BY <1>1, <1>2 DEF Sound
<1>4. Outcome(p, s, ResumeError(s))
  BY <1>1, <1>2, ResumeErrorOutcome
<1>5. CASE Restore(p) /\ entries[s.level] # NoFile
  <2>1. Become(p, ResumeError(s)) /\ Keep
    BY <1>5 DEF Restore, Keep
  <2>2. QED
    BY <1>4, <2>1, KeepOrdinary
<1>6. CASE Restore(p) /\ entries[s.level] = NoFile
  <2> DEFINE r == [s EXCEPT !.pc = "restored"]
  <2>1. /\ r \in Processes /\ r.pc = "restored" /\ r.level = s.level
        /\ r.releasing = s.releasing /\ r.obs = s.obs /\ r.snap = s.snap
        /\ r.reclaiming = s.reclaiming /\ r.moved = s.moved /\ r.got = s.got
        /\ r.expected = s.expected /\ r.resume = s.resume
    BY <1>1 DEF Processes, Labels
  <2>2. Sound(p, r)
    BY <1>1, <1>2, <2>1 DEF Sound, Releasing
  <2>3. Outcome(p, s, r)
    BY <1>2, <2>1, <2>2 DEF Outcome, Relies
  <2>4. /\ Become(p, r) /\ UNCHANGED <<record, crashes>>
        /\ s.from = "path" =>
              path[s.level] = NoFile /\ path' = Link(path, s.level, s.moved) /\ fence' = fence
        /\ s.from # "path" => path' = path /\ fence' = Link(fence, s.level, s.moved)
    BY <1>6 DEF Restore
  <2>5. Directory(p, r)
    BY <1>1, <2>4 DEF Directory, Takes, Link, TypeOK, LockInv
  <2>6. QED
    BY <2>3, <2>4, <2>5 DEF Ordinary, Become
<1>7. CASE Restored(p)
  <2>1. PICK result \in BOOLEAN :
            Keep /\ (Become(p, Resume(s, result)) \/ Become(p, ResumeError(s)))
    BY <1>7 DEF Restored
  <2>2. Outcome(p, s, Resume(s, result))
    BY <1>1, <1>2, <1>3, ResumeOutcome
  <2>3. QED
    BY <1>4, <2>1, <2>2, KeepOrdinary
<1>8. QED
  BY <1>5, <1>6, <1>7

\* What the loop of an acquisition does beside publishing and reading back.
LEMMA AcquireOrdinary ==
    ASSUME LockConstants, TypeOK, LockInv, NEW p \in Procs,
           \/ Observe(p) \/ TimeOut(p) \/ Recheck(p)
    PROVE  \E r : Ordinary(p, r)
<1> DEFINE s == proc[p]
<1>1. /\ s \in Processes /\ Sound(p, s) /\ s.level \in Levels
      /\ path[s.level] \in Entries /\ Known(path[s.level])
      /\ \A file \in Entries : file # NoFile => file \in Files
  BY Entry
<1>2. /\ s.pc \in {"recover", "observe", "recheck"}
      /\ ~s.releasing /\ Took(p, s) /\ Known(s.obs) /\ Known(s.snap) /\ s.obs \in Entries
      /\ s.reclaiming => s.obs # NoFile /\ DeadOwner(s.obs)
  BY <1>1 DEF Observe, TimeOut, Recheck, At, Sound, Took, Releasing, Processes
<1>3. CASE Observe(p)
  <2> DEFINE obs == path[s.level]
             at == [s EXCEPT !.obs = obs]
             r == [at EXCEPT !.pc = "recover", !.reclaiming = TRUE]
  <2>1. /\ at \in Processes /\ Took(p, at) /\ at.expected = s.expected
        /\ at.releasing = s.releasing /\ at.level = s.level /\ at.pc = s.pc
    BY <1>1, <1>2 DEF Processes, Took
  <2>2. Outcome(p, at, Again(at))
    BY <1>2, <2>1, AgainOutcome
  <2>3. Outcome(p, s, Again(at))
    BY <2>1, <2>2 DEF Outcome, Relies
  <2>4. /\ r \in Processes /\ r.pc = "recover" /\ r.level = s.level
        /\ r.releasing = s.releasing /\ r.obs = obs /\ r.snap = s.snap
        /\ r.reclaiming /\ r.moved = s.moved /\ r.got = s.got
        /\ r.expected = s.expected
    BY <1>1 DEF Processes, Labels
  <2>5. ASSUME obs # NoFile, Stale(s.level, obs) PROVE Outcome(p, s, r)
    <3>1. DeadOwner(obs)
      BY <1>1, <2>5, StaleIsDead
    <3> HIDE DEF r
    <3>2. QED
      BY <1>1, <1>2, <2>4, <2>5, <3>1, GoOutcome
  <2>6. /\ Keep
        /\ \/ Become(p, Again(at))
           \/ obs # NoFile /\ Stale(s.level, obs) /\ Become(p, r)
    BY <1>3 DEF Observe
  <2>7. QED
    BY <2>3, <2>5, <2>6, KeepOrdinary
<1>4. CASE TimeOut(p)
  <2>1. Outcome(p, s, Throw(s))
    BY <1>1, <1>2, ThrowOutcome
  <2>2. QED
    BY <1>4, <2>1, KeepOrdinary DEF TimeOut
<1>5. CASE Recheck(p)
  <2>1. PICK pc \in {"reclaim", "drop-fence"} : Keep /\ Become(p, [s EXCEPT !.pc = pc])
    BY <1>5 DEF Recheck
  <2> DEFINE r == [s EXCEPT !.pc = pc]
  <2>2. /\ r \in Processes /\ r.pc = pc /\ r.level = s.level
        /\ r.releasing = s.releasing /\ r.obs = s.obs /\ r.snap = s.snap
        /\ r.reclaiming = s.reclaiming /\ r.moved = s.moved /\ r.got = s.got
        /\ r.expected = s.expected
    BY <1>1 DEF Processes, Labels
  <2>3. s.reclaiming
    BY <1>1, <1>2, <1>5 DEF Recheck, At, Sound
  <2>4. Outcome(p, s, r)
    <3> HIDE DEF r
    <3>1. QED
      BY <1>1, <1>2, <2>2, <2>3, GoOutcome
  <2>5. QED
    BY <2>1, <2>4, KeepOrdinary
<1>6. QED
  BY <1>3, <1>4, <1>5

\* Releasing a lock, and taking its fence.
LEMMA FenceOrdinary ==
    ASSUME LockConstants, TypeOK, LockInv, NEW p \in Procs,
           Release(p) \/ Snapshot(p) \/ CheckFence(p)
    PROVE  \E r : Ordinary(p, r)
<1> DEFINE s == proc[p]
<1>1. /\ s \in Processes /\ Sound(p, s) /\ s.level \in Levels
      /\ path[s.level] \in Entries /\ Known(path[s.level])
      /\ fence[s.level] \in Entries /\ Known(fence[s.level])
      /\ \A file \in Entries : file # NoFile => file \in Files
  BY Entry
<1>2. /\ s.pc \in {"release", "snapshot", "check-fence"}
      /\ Took(p, s) /\ Known(s.obs) /\ Known(s.snap)
      /\ s.reclaiming => s.obs # NoFile /\ DeadOwner(s.obs)
  BY <1>1 DEF Release, Snapshot, CheckFence, At, Sound, Took
<1>3. Outcome(p, s, GiveUp(s))
  BY <1>1, <1>2, AgainOutcome, AfterReleaseOutcome DEF GiveUp
<1>4. CASE Release(p)
  <2>1. s.releasing /\ s.got[s.level] # NoFile
    BY <1>1, <1>4 DEF Release, At, Sound
  <2>2. Keep /\ (\/ Become(p, GiveUp(s))
               \/ /\ Names(s.level, Target(s), p) /\ path[s.level] = Target(s)
                  /\ Become(p, [s EXCEPT !.pc = "snapshot"]))
    BY <1>4, <2>1 DEF Release, GiveUp
  <2> DEFINE r == [s EXCEPT !.pc = "snapshot"]
  <2>3. /\ r \in Processes /\ r.pc = "snapshot" /\ r.level = s.level
        /\ r.releasing = s.releasing /\ r.obs = s.obs /\ r.snap = s.snap
        /\ r.reclaiming = s.reclaiming /\ r.moved = s.moved /\ r.got = s.got
        /\ r.expected = s.expected
    BY <1>1 DEF Processes, Labels
  <2>4. CASE Names(s.level, Target(s), p)
    <3>1. OwnTarget(p, s)
      BY <1>1, <2>1, <2>4 DEF OwnTarget, Target, Names, Sound, Levels
    <3>2. Outcome(p, s, r)
      <4> HIDE DEF r
      <4>1. QED
        BY <1>1, <1>2, <2>1, <2>3, <3>1, GoOutcome DEF Releasing
    <3>3. QED
      BY <1>3, <2>2, <3>2, KeepOrdinary
  <2>5. QED
    BY <1>3, <2>2, <2>4, KeepOrdinary
<1>5. CASE Snapshot(p)
  <2> DEFINE r == [s EXCEPT !.pc = "check-fence"]
  <2>1. s.pc = "snapshot"
    BY <1>5 DEF Snapshot, At
  <2>2. CASE fence[s.level] # NoFile \/ path[s.level] = NoFile
    <3>1. Become(p, GiveUp(s)) /\ Keep
      BY <1>5, <2>2 DEF Snapshot, Keep
    <3>2. QED
      BY <1>3, <3>1, KeepOrdinary
  <2>3. CASE ~(fence[s.level] # NoFile \/ path[s.level] = NoFile)
    <3>1. /\ fence' = Link(fence, s.level, path[s.level]) /\ Become(p, r)
          /\ UNCHANGED <<path, record, crashes>>
      BY <1>5, <2>3 DEF Snapshot
    <3>2. /\ r \in Processes /\ r.pc = "check-fence" /\ r.level = s.level
          /\ r.releasing = s.releasing /\ r.obs = s.obs /\ r.snap = s.snap
          /\ r.reclaiming = s.reclaiming /\ r.moved = s.moved /\ r.got = s.got
          /\ r.expected = s.expected
      BY <1>1 DEF Processes, Labels
    <3>3. Outcome(p, s, r)
      <4>1. /\ s.releasing \/ s.reclaiming
            /\ s.releasing => OwnTarget(p, s)
        BY <1>1, <2>1 DEF Sound
      <4> HIDE DEF r
      <4>2. QED
        BY <1>1, <1>2, <3>2, <4>1, GoOutcome DEF Releasing
    <3>4. Directory(p, r)
      BY <1>1, <3>1 DEF Directory, Takes, Link, TypeOK, LockInv
    <3>5. QED
      BY <3>1, <3>3, <3>4 DEF Ordinary, Become
  <2>4. QED
    BY <2>2, <2>3
<1>6. CASE CheckFence(p)
  <2> DEFINE snap == fence[s.level]
             at == [s EXCEPT !.snap = snap]
  <2>1. s.pc = "check-fence" /\ (s.releasing \/ s.reclaiming)
        /\ (s.releasing => OwnTarget(p, s))
    BY <1>1, <1>6 DEF CheckFence, At, Sound
  <2>2. /\ at \in Processes /\ Took(p, at) /\ at.expected = s.expected
        /\ at.releasing = s.releasing /\ at.level = s.level /\ at.pc = s.pc
    BY <1>1, <1>2 DEF Processes, Took
  <2>3. Outcome(p, s, GiveUp(at))
    <3>1. Outcome(p, at, GiveUp(at))
      BY <1>2, <2>2, AgainOutcome, AfterReleaseOutcome DEF GiveUp
    <3>2. QED
      BY <2>2, <3>1 DEF Outcome, Relies
  <2>4. ASSUME NEW pc \in {"reclaim", "recheck", "drop-fence"},
               pc = "recheck" => ~s.releasing
        PROVE  Outcome(p, s, [at EXCEPT !.pc = pc])
    <3> DEFINE r == [at EXCEPT !.pc = pc]
    <3>1. /\ r \in Processes /\ r.pc = pc /\ r.level = s.level
          /\ r.releasing = s.releasing /\ r.obs = s.obs /\ r.snap = snap
          /\ r.reclaiming = s.reclaiming /\ r.moved = s.moved /\ r.got = s.got
          /\ r.expected = s.expected
      BY <1>1 DEF Processes, Labels
    <3>2. Outcome(p, s, r)
      <4> HIDE DEF r
      <4>1. QED
        BY <1>1, <1>2, <2>1, <2>4, <3>1, GoOutcome DEF Releasing
    <3>3. QED
      BY <3>2
  <2>5. /\ Keep
        /\ \/ Become(p, GiveUp(at))
           \/ \E pc \in {"reclaim", "recheck", "drop-fence"} :
                 (pc = "recheck" => ~s.releasing) /\ Become(p, [at EXCEPT !.pc = pc])
    BY <1>6, <2>2 DEF CheckFence
  <2>6. QED
    BY <2>3, <2>4, <2>5, KeepOrdinary
<1>7. QED
  BY <1>4, <1>5, <1>6

\* The PID in a lock that was read back: the process's own, or a dead one's.
LEMMA OwnPid ==
    ASSUME LockConstants, TypeOK, LockInv, NEW p \in Procs, Alive(p), NEW file \in Files,
           Known(file), PidOf[file.by] = PidOf[p]
    PROVE  file.by = p \/ DeadOwner(file)
BY DEF LockConstants, LockInv, Known

\* A lock is taken by reading its name back.
LEMMA PublishedOrdinary ==
    ASSUME LockConstants, TypeOK, LockInv, NEW p \in Procs, Published(p)
    PROVE  \E r : Ordinary(p, r)
<1> DEFINE s == proc[p]
           seen == path[s.level]
           held == [s EXCEPT !.got[s.level] = seen]
<1>1. /\ s \in Processes /\ Sound(p, s) /\ s.level \in Levels
      /\ seen \in Entries /\ Known(seen)
      /\ \A file \in Entries : file # NoFile => file \in Files
  BY Entry
<1>2. /\ s.pc = "published" /\ Alive(p) /\ ~s.releasing /\ Known(s.obs) /\ Known(s.snap)
      /\ s.reclaiming => s.obs # NoFile /\ DeadOwner(s.obs)
  BY <1>1 DEF Published, At, Alive, Sound, Releasing
<1>3. Keep
  BY DEF Published
<1>4. CASE Become(p, [s EXCEPT !.pc = "observe"])
  <2> DEFINE r == [s EXCEPT !.pc = "observe"]
  <2>1. /\ r \in Processes /\ r.pc = "observe" /\ r.level = s.level
        /\ r.releasing = s.releasing /\ r.obs = s.obs /\ r.snap = s.snap
        /\ r.reclaiming = s.reclaiming /\ r.moved = s.moved /\ r.got = s.got
        /\ r.expected = s.expected
    BY <1>1 DEF Processes, Labels
  <2>2. Outcome(p, s, r)
    <3> HIDE DEF r
    <3>1. QED
      BY <1>1, <1>2, <2>1, GoOutcome
  <2>3. QED
    BY <1>3, <1>4, <2>2, KeepOrdinary
<1>5. CASE /\ s.level = "lock" /\ seen # NoFile /\ PidOf[seen.by] = PidOf[p]
           /\ Become(p, [held EXCEPT !.pc = "recover", !.level = "owner"])
  <2> DEFINE r == [held EXCEPT !.pc = "recover", !.level = "owner"]
  <2>1. /\ r \in Processes /\ r.pc = "recover" /\ r.level = "owner"
        /\ r.releasing = s.releasing /\ r.obs = s.obs /\ r.snap = s.snap
        /\ r.reclaiming = s.reclaiming /\ r.moved = s.moved
        /\ r.got["lock"] = seen /\ r.got["owner"] = s.got["owner"]
        /\ r.expected = s.expected
    BY <1>1, <1>5 DEF Processes, Labels, Levels
  <2>2. seen.by = p \/ DeadOwner(seen)
    BY <1>1, <1>2, <1>5, OwnPid
  <2>3. Sound(p, r)
    BY <1>1, <1>2, <1>5, <2>1, <2>2 DEF Sound, Levels
  <2>4. Outcome(p, s, r)
    BY <1>2, <1>5, <2>1, <2>3 DEF Outcome, Relies, Levels
  <2>5. QED
    BY <1>3, <1>5, <2>4, KeepOrdinary
<1>6. CASE s.level = "owner" /\ seen # NoFile /\ Become(p, [held EXCEPT !.pc = "read"])
  <2> DEFINE r == [held EXCEPT !.pc = "read"]
  <2>1. /\ r \in Processes /\ r.pc = "read" /\ r.level = "owner"
        /\ r.releasing = s.releasing /\ r.obs = s.obs /\ r.snap = s.snap
        /\ r.reclaiming = s.reclaiming /\ r.moved = s.moved
        /\ r.got["lock"] = s.got["lock"] /\ r.got["owner"] = seen
        /\ r.expected = s.expected
    BY <1>1, <1>6 DEF Processes, Labels, Levels
  <2>2. Sound(p, r)
    BY <1>1, <1>2, <1>6, <2>1 DEF Sound, Levels
  <2>3. Outcome(p, s, r)
    BY <1>2, <1>6, <2>1, <2>2 DEF Outcome, Relies, Levels
  <2>4. QED
    BY <1>3, <1>6, <2>3, KeepOrdinary
<1>7. QED
  BY <1>1, <1>4, <1>5, <1>6 DEF Published, Levels

\* The other steps: p publishes a lock of its own, ...
Publishes(p, r) ==
    LET level == proc[p].level
    IN  /\ r \in Processes /\ Sound(p, r) /\ proc' = [proc EXCEPT ![p] = r]
        /\ Alive(p) /\ r.pc = "published" /\ r.level = level
        /\ r.releasing = proc[p].releasing /\ r.expected = proc[p].expected
        /\ path[level] = NoFile
        /\ path' \in [Levels -> Entries] /\ path'[level] \in Files /\ path'[level].by = p
        /\ \A other \in Levels : other # level => path'[other] = path[other]
        /\ UNCHANGED <<fence, record, crashes>>

\* ... starts with the version it has read, finds it unchanged, or replaces it, ...
Starts(p, r) ==
    /\ r \in Processes /\ Sound(p, r) /\ proc' = [proc EXCEPT ![p] = r]
    /\ proc[p].pc = "unstarted" /\ \A q \in Procs : Alive(q) => PidOf[q] # PidOf[p]
    /\ r.pc = "recover" /\ r.level = proc[p].level /\ r.releasing = proc[p].releasing
    /\ r.expected = record.version
    /\ Keep

Reads(p, r) ==
    /\ r \in Processes /\ Sound(p, r) /\ proc' = [proc EXCEPT ![p] = r]
    /\ proc[p].pc = "read" /\ r.pc = "write" /\ r.level = proc[p].level
    /\ r.releasing = proc[p].releasing /\ r.got = proc[p].got
    /\ r.expected = proc[p].expected /\ record.version = proc[p].expected
    /\ Keep

Writes(p, r) ==
    /\ Outcome(p, proc[p], r) /\ proc' = [proc EXCEPT ![p] = r]
    /\ proc[p].pc = "write" /\ ~proc[p].releasing /\ r.releasing /\ r.pc # "read"
    /\ record' = [version |-> proc[p].expected + 1, by |-> p]
    /\ UNCHANGED <<path, fence, crashes>>

\* ... or ends.
Ends(p, r) ==
    /\ r \in Processes /\ Sound(p, r) /\ proc' = [proc EXCEPT ![p] = r]
    /\ Alive(p) /\ r.pc = "exited" /\ r.expected = 0
    /\ UNCHANGED <<path, fence, record>> /\ crashes' \in 0 .. MaxCrashes

LEMMA StartStarts ==
    ASSUME LockConstants, TypeOK, LockInv, NEW p \in Procs, Start(p)
    PROVE  \E r : Starts(p, r)
<1> DEFINE s == proc[p]
           r == [s EXCEPT !.pc = "recover", !.expected = record.version]
<1>1. s \in Processes /\ Sound(p, s)
  BY Entry
<1>2. /\ r \in Processes /\ r.pc = "recover" /\ r.level = s.level
      /\ r.releasing = s.releasing /\ r.obs = s.obs /\ r.snap = s.snap
      /\ r.reclaiming = s.reclaiming /\ r.moved = s.moved /\ r.got = s.got
      /\ r.expected = record.version
  BY <1>1 DEF Processes, Labels, TypeOK
<1>3. s.pc = "unstarted" /\ ~s.releasing
  BY <1>1 DEF Start, At, Sound, Releasing
<1>4. Sound(p, r)
  BY <1>1, <1>2, <1>3 DEF Sound
<1>5. Starts(p, r)
  BY <1>2, <1>3, <1>4 DEF Start, Starts, Become, PidAlive
<1>6. QED
  BY <1>5

\* The record is read, and written, by a process that does not release yet.
LEMMA OtherSteps ==
    ASSUME LockConstants, TypeOK, LockInv, NEW p \in Procs,
           \/ Publish(p) \/ ReadRecord(p) \/ WriteRecord(p)
           \/ Exit(p) \/ Crash(p)
    PROVE  \E r : \/ Ordinary(p, r) \/ Publishes(p, r) \/ Reads(p, r)
                  \/ Writes(p, r) \/ Ends(p, r)
<1> DEFINE s == proc[p]
<1>1. /\ s \in Processes /\ Sound(p, s) /\ s.level \in Levels
      /\ path[s.level] \in Entries /\ NoFile \in Entries /\ Known(NoFile)
  BY Entry
<1>2. /\ Took(p, s) /\ Known(s.obs) /\ Known(s.snap)
      /\ s.reclaiming => s.obs # NoFile /\ DeadOwner(s.obs)
  BY <1>1 DEF Sound, Took
<1>3. CASE Publish(p)
  <2>1. s.pc = "publish" /\ ~s.releasing /\ Alive(p)
    BY <1>1, <1>3 DEF Publish, At, Sound, Releasing, Alive
  <2>2. CASE path[s.level] # NoFile
    <3> DEFINE r == [s EXCEPT !.pc = "observe"]
    <3>1. /\ r \in Processes /\ r.pc = "observe" /\ r.level = s.level
          /\ r.releasing = s.releasing /\ r.obs = s.obs /\ r.snap = s.snap
          /\ r.reclaiming = s.reclaiming /\ r.moved = s.moved /\ r.got = s.got
          /\ r.expected = s.expected
      BY <1>1 DEF Processes, Labels
    <3>2. Outcome(p, s, r)
      <4> HIDE DEF r
      <4>1. QED
        BY <1>1, <1>2, <2>1, <3>1, GoOutcome
    <3>3. Become(p, r) /\ Keep
      BY <1>3, <2>2 DEF Publish, Keep
    <3>4. QED
      BY <3>2, <3>3, KeepOrdinary
  <2>3. CASE path[s.level] = NoFile
    <3> DEFINE n == s.files[s.level] + 1
               file == [by |-> p, level |-> s.level, n |-> n]
               r == [s EXCEPT !.pc = "published", !.files[s.level] = n]
    <3>1. /\ s.files[s.level] < MaxFiles /\ path' = Link(path, s.level, file)
          /\ Become(p, r) /\ UNCHANGED <<fence, record, crashes>>
      BY <1>3, <2>3 DEF Publish
    <3>2. n \in 0 .. MaxFiles
      BY <1>1, <3>1 DEF Processes, LockConstants
    <3>3. file \in Files
      BY <1>1, <3>2 DEF Files
    <3>4. /\ r \in Processes /\ r.pc = "published" /\ r.level = s.level
          /\ r.releasing = s.releasing /\ r.obs = s.obs /\ r.snap = s.snap
          /\ r.reclaiming = s.reclaiming /\ r.moved = s.moved /\ r.got = s.got
          /\ r.expected = s.expected
      BY <1>1, <3>2 DEF Processes, Labels
    <3>5. Sound(p, r)
      BY <1>1, <2>1, <3>4 DEF Sound
    <3>6. /\ path' \in [Levels -> Entries] /\ path'[s.level] = file
          /\ \A other \in Levels : other # s.level => path'[other] = path[other]
      BY <1>1, <3>1, <3>3 DEF Link, TypeOK, Entries
    <3>7. Publishes(p, r)
      BY <2>1, <2>3, <3>1, <3>3, <3>4, <3>5, <3>6 DEF Publishes, Become
    <3>8. QED
      BY <3>7
  <2>4. QED
    BY <2>2, <2>3
<1>4. CASE ReadRecord(p) \/ WriteRecord(p)
  <2>1. s.pc \in {"read", "write"} /\ ~s.releasing /\ s.level = "owner"
    BY <1>1, <1>4 DEF ReadRecord, WriteRecord, At, Sound, Releasing
  <2>2. Outcome(p, s, ReleaseFrom(s)) /\ ReleaseFrom(s).releasing
    BY <1>1, <1>2, <2>1, ReleaseFromOutcome
  <2>3. CASE ReadRecord(p) /\ record.version # s.expected
    <3>1. Become(p, ReleaseFrom(s)) /\ Keep
      BY <2>3 DEF ReadRecord
    <3>2. QED
      BY <2>2, <3>1, KeepOrdinary
  <2>4. CASE ReadRecord(p) /\ record.version = s.expected
    <3> DEFINE r == [s EXCEPT !.pc = "write"]
    <3>1. /\ r \in Processes /\ r.pc = "write" /\ r.level = s.level
          /\ r.releasing = s.releasing /\ r.obs = s.obs /\ r.snap = s.snap
          /\ r.reclaiming = s.reclaiming /\ r.moved = s.moved /\ r.got = s.got
          /\ r.expected = s.expected
      BY <1>1 DEF Processes, Labels
    <3>2. Sound(p, r)
      BY <1>1, <2>1, <3>1 DEF Sound
    <3>3. s.pc = "read" /\ Become(p, r) /\ Keep
      BY <2>4 DEF ReadRecord, At
    <3>4. Reads(p, r)
      BY <2>4, <3>1, <3>2, <3>3 DEF Reads, Become
    <3>5. QED
      BY <3>4
  <2>5. CASE WriteRecord(p)
    <3>1. /\ s.pc = "write" /\ Become(p, ReleaseFrom(s))
          /\ record' = [version |-> s.expected + 1, by |-> p]
          /\ UNCHANGED <<path, fence, crashes>>
      BY <2>5 DEF WriteRecord, At
    <3>2. ReleaseFrom(s).pc # "read"
      BY <2>2 DEF Outcome, Sound, Releasing
    <3>3. Writes(p, ReleaseFrom(s))
      BY <2>1, <2>2, <3>1, <3>2 DEF Writes, Become
    <3>4. QED
      BY <3>3
  <2>6. QED
    BY <1>4, <2>3, <2>4, <2>5
<1>5. CASE Exit(p) \/ Crash(p)
  <2> DEFINE r == Gone(s)
  <2>1. /\ r \in Processes /\ r.pc = "exited" /\ r.level = "lock" /\ ~r.releasing
        /\ r.obs = NoFile /\ r.snap = NoFile /\ ~r.reclaiming /\ r.moved = NoFile
        /\ r.got = s.got /\ r.expected = 0
    <3>1. Cardinality(Procs) \in Nat /\ 0 \in 0 .. Cardinality(Procs)
      BY FS_CardinalityType DEF LockConstants
    <3>2. [l \in Levels |-> 0] \in [Levels -> 0 .. MaxFiles] /\ "lock" \in Levels
      BY DEF LockConstants, Levels
    <3>3. s.got \in [Levels -> Entries]
      BY <1>1 DEF Processes
    <3>4. QED
      BY <1>1, <3>1, <3>2, <3>3 DEF Gone, Unstarted, Processes, Labels
  <2>2. Sound(p, r)
    BY <1>1, <2>1 DEF Sound
  <2>3. Alive(p) /\ Become(p, r) /\ UNCHANGED <<path, fence, record>>
    BY <1>5 DEF Exit, Crash, Alive, Keep
  <2>4. crashes' \in 0 .. MaxCrashes
    BY <1>5 DEF Exit, Crash, Keep, TypeOK, LockConstants
  <2>5. Ends(p, r)
    BY <2>1, <2>2, <2>3, <2>4 DEF Ends, Become
  <2>6. QED
    BY <2>5
<1>6. QED
  BY <1>3, <1>4, <1>5

\* What a step of p can be.
LEMMA StepIs ==
    ASSUME LockConstants, TypeOK, LockInv, NEW p \in Procs,
           Step(p) \/ TimeOut(p) \/ Crash(p)
    PROVE  \E r : \/ Starts(p, r)
                  \/ /\ Alive(p)
                     /\ \/ Ordinary(p, r) \/ Publishes(p, r) \/ Reads(p, r)
                        \/ Writes(p, r) \/ Ends(p, r)
<1>1. CASE Start(p)
  BY <1>1, StartStarts
<1>2. CASE ~Start(p)
  <2>1. Alive(p)
    BY <1>2 DEF Step, RecoverFence, ObserveFence, ObserveFenced, RetireFence, ConfirmFence,
       ConfirmLock, RetireLock, RetireRecovered, Restore, Restored, Publish, Published,
       Observe, Release, Snapshot, CheckFence, Recheck, Reclaim, DropFence, ReadRecord,
       WriteRecord, Exit, TimeOut, Crash, At, Alive
  <2>2. \E r : \/ Ordinary(p, r) \/ Publishes(p, r) \/ Reads(p, r)
               \/ Writes(p, r) \/ Ends(p, r)
    BY <1>2, RecoverOrdinary, RetireOutcomes, RestoreOrdinary, AcquireOrdinary,
       FenceOrdinary, PublishedOrdinary, OtherSteps DEF Step
  <2>3. QED
    BY <2>1, <2>2
<1>3. QED
  BY <1>1, <1>2

-----------------------------------------------------------------------------
(* The invariants.                                                         *)

\* Processes that have had their turn at the record.
Spent == {p \in Procs : proc[p].releasing \/ proc[p].pc = "exited"}

\* The record has at most one version for each of them.
Counted ==
    /\ record.version <= Cardinality(Spent)
    /\ \A p \in Procs : proc[p].expected <= Cardinality(Spent)

\* A process that relies on the lock of a level has it.
Guarded(level) ==
    \A p \in Procs :
        Relies(proc[p], level) => path[level] # NoFile /\ path[level].by = p

\* Who is about to write has compared the version of the record as it is.
Fresh == \A p \in Procs : proc[p].pc = "write" => proc[p].expected = record.version

LEMMA LockInit ==
    ASSUME LockConstants, Init
    PROVE  /\ TypeOK /\ LockInv /\ Counted /\ Fresh
           /\ \A level \in Levels : Guarded(level)
<1>1. proc = [p \in Procs |-> Unstarted] /\ crashes = 0
  BY DEF Init
<1>2. Cardinality(Procs) \in Nat /\ MaxCrashes \in Nat /\ MaxFiles \in Nat
  BY FS_CardinalityType DEF LockConstants
<1>3. Unstarted \in Processes
  <2>1. /\ "unstarted" \in Labels /\ "lock" \in Levels /\ NoFile \in Entries
        /\ [level \in Levels |-> NoFile] \in [Levels -> Entries]
        /\ [level \in Levels |-> 0] \in [Levels -> 0 .. MaxFiles]
        /\ 0 \in 0 .. Cardinality(Procs)
    BY <1>2 DEF Labels, Levels, Entries
  <2>2. QED
    BY <2>1 DEF Unstarted, Processes
<1>4. /\ path \in [Levels -> Entries] /\ fence \in [Levels -> Entries]
      /\ \A level \in Levels : /\ path[level] \in {NoFile, DeadFile(level)}
                              /\ fence[level] \in {NoFile, DeadFile(level)}
  BY <1>2 DEF Init, Entries, Files, DeadFile
<1>5. record \in [version : 0 .. Cardinality(Procs), by : Procs \union {Dead}]
      /\ record.version = 0
  BY <1>2 DEF Init
<1>6. TypeOK
  BY <1>1, <1>2, <1>3, <1>4, <1>5 DEF TypeOK
<1>7. LockInv
  <2>1. Known(NoFile) /\ \A level \in Levels : Known(DeadFile(level))
    BY DEF Known, DeadOwner, DeadFile
  <2>2. ASSUME NEW p \in Procs PROVE Sound(p, Unstarted)
    BY <2>1 DEF Sound, Unstarted, Levels
  <2>3. QED
    BY <1>1, <1>4, <2>1, <2>2 DEF LockInv, Alive, Unstarted
<1>8. Counted
  <2>1. Spent \subseteq Procs
    BY DEF Spent
  <2>2. Cardinality(Spent) \in Nat
    BY <2>1, FS_Subset, FS_CardinalityType DEF LockConstants
  <2>3. QED
    BY <1>1, <1>5, <2>2 DEF Counted, Unstarted
<1>9. Fresh /\ \A level \in Levels : Guarded(level)
  BY <1>1 DEF Fresh, Guarded, Relies, Unstarted, Levels
<1>10. QED
  BY <1>6, <1>7, <1>8, <1>9

LEMMA TypeStep ==
    ASSUME LockConstants, TypeOK, LockInv, Counted, NEW p \in Procs,
           Step(p) \/ TimeOut(p) \/ Crash(p)
    PROVE  TypeOK' /\ Counted'
<1>1. PICK r : \/ Starts(p, r)
               \/ /\ Alive(p)
                  /\ \/ Ordinary(p, r) \/ Publishes(p, r) \/ Reads(p, r)
                     \/ Writes(p, r) \/ Ends(p, r)
  BY StepIs
<1>2. /\ r \in Processes /\ proc' = [proc EXCEPT ![p] = r]
      /\ proc[p].pc # "exited" /\ (proc[p].releasing => r.releasing \/ r.pc = "exited")
  BY <1>1 DEF Starts, Ordinary, Publishes, Reads, Writes, Ends, Outcome, Alive
<1>3. /\ proc' \in [Procs -> Processes] /\ proc'[p] = r
      /\ \A q \in Procs : q # p => proc'[q] = proc[q]
  BY <1>2 DEF TypeOK
<1>4. path' \in [Levels -> Entries] /\ fence' \in [Levels -> Entries]
  BY <1>1 DEF Starts, Ordinary, Directory, Publishes, Reads, Writes, Ends, Keep, TypeOK
<1>5. crashes' \in 0 .. MaxCrashes
  BY <1>1 DEF Starts, Ordinary, Publishes, Reads, Writes, Ends, Keep, TypeOK
<1>6. Spent \subseteq Spent' /\ Spent' \subseteq Procs
  BY <1>2, <1>3 DEF Spent
<1>7. /\ IsFiniteSet(Spent) /\ IsFiniteSet(Spent')
      /\ Cardinality(Spent) \in Nat /\ Cardinality(Spent') \in Nat
      /\ Cardinality(Procs) \in Nat
      /\ Cardinality(Spent) <= Cardinality(Spent')
      /\ Cardinality(Spent') <= Cardinality(Procs)
  <2>1. IsFiniteSet(Procs) /\ IsFiniteSet(Spent')
    BY <1>6, FS_Subset DEF LockConstants
  <2>2. QED
    BY <1>6, <2>1, FS_Subset, FS_CardinalityType
<1>8. /\ record.version \in Nat /\ \A q \in Procs : proc[q].expected \in Nat
  BY <1>7 DEF TypeOK, Processes
<1>9. CASE Writes(p, r)
  <2>1. /\ record' = [version |-> proc[p].expected + 1, by |-> p]
        /\ r.expected = proc[p].expected /\ r.releasing /\ p \notin Spent
    BY <1>9 DEF Writes, Outcome, Spent
  <2>2. Cardinality(Spent \union {p}) = Cardinality(Spent) + 1
    BY <1>7, <2>1, FS_AddElement
  <2>3. Spent \union {p} \subseteq Spent'
    BY <1>3, <1>6, <2>1 DEF Spent
  <2>4. Cardinality(Spent) + 1 <= Cardinality(Spent')
    BY <1>7, <2>2, <2>3, FS_Subset
  <2>5. record'.version <= Cardinality(Spent') /\ record'.version \in Nat
    BY <1>7, <1>8, <2>1, <2>4 DEF Counted
  <2>6. \A q \in Procs : proc'[q].expected <= Cardinality(Spent')
    BY <1>3, <1>7, <1>8, <2>1 DEF Counted
  <2>7. QED
    BY <1>3, <1>4, <1>5, <1>7, <2>1, <2>5, <2>6 DEF TypeOK, Counted
<1>10. CASE ~Writes(p, r)
  <2>1. record' = record
    BY <1>1, <1>10 DEF Starts, Ordinary, Publishes, Reads, Ends, Keep
  <2>2. r.expected \in {proc[p].expected, record.version, 0}
    BY <1>1, <1>10 DEF Starts, Ordinary, Publishes, Reads, Ends, Outcome
  <2>3. \A q \in Procs : proc'[q].expected <= Cardinality(Spent')
    BY <1>3, <1>7, <1>8, <2>2 DEF Counted
  <2>4. record'.version <= Cardinality(Spent')
    BY <1>7, <1>8, <2>1 DEF Counted
  <2>5. QED
    BY <1>3, <1>4, <1>5, <2>1, <2>3, <2>4 DEF TypeOK, Counted
<1>11. QED
  BY <1>9, <1>10

LEMMA LockStep ==
    ASSUME LockConstants, TypeOK, LockInv, NEW p \in Procs,
           Step(p) \/ TimeOut(p) \/ Crash(p)
    PROVE  LockInv'
<1>1. PICK r : \/ Starts(p, r)
               \/ /\ Alive(p)
                  /\ \/ Ordinary(p, r) \/ Publishes(p, r) \/ Reads(p, r)
                     \/ Writes(p, r) \/ Ends(p, r)
  BY StepIs
<1>2. /\ r \in Processes /\ Sound(p, r) /\ proc' = [proc EXCEPT ![p] = r]
      /\ proc[p].pc # "exited" /\ r.pc # "unstarted"
      /\ Alive(p) \/ \A q \in Procs : Alive(q) => PidOf[q] # PidOf[p]
  BY <1>1 DEF Starts, Ordinary, Publishes, Reads, Writes, Ends, Outcome, Alive
<1>3. \A level \in Levels : \E file :
         path'[level] = file /\ (Known(file) \/ (r.pc # "exited" /\ file.by = p))
  BY <1>1 DEF Starts, Ordinary, Directory, Publishes, Reads, Writes, Ends, Keep, LockInv
<1>4. \A level \in Levels : \E file : fence'[level] = file /\ Known(file)
  BY <1>1 DEF Starts, Ordinary, Directory, Publishes, Reads, Writes, Ends, Keep, LockInv
<1>5. QED
  BY <1>2, <1>3, <1>4, KeepsLockInv

\* Who relies on a lock is alive, and does not release.
LEMMA ReliesMeans ==
    ASSUME NEW p \in Procs, NEW s, Sound(p, s), NEW level \in Levels, Relies(s, level)
    PROVE  s.pc \notin {"unstarted", "exited"} /\ ~s.releasing
BY DEF Sound, Relies, Releasing, Levels

\* A lock that is relied on stays where it is, unless it is moved aside by mistake.
LEMMA GuardedStep ==
    ASSUME LockConstants, TypeOK, LockInv, NEW level \in Levels, Guarded(level),
           NEW p \in Procs, Step(p) \/ TimeOut(p) \/ Crash(p), ~Displaced(level)'
    PROVE  Guarded(level)'
<1>1. PICK r : \/ Starts(p, r)
               \/ /\ Alive(p)
                  /\ \/ Ordinary(p, r) \/ Publishes(p, r) \/ Reads(p, r)
                     \/ Writes(p, r) \/ Ends(p, r)
  BY StepIs
<1>2. /\ r \in Processes /\ proc' = [proc EXCEPT ![p] = r]
  BY <1>1 DEF Starts, Ordinary, Publishes, Reads, Writes, Ends, Outcome
<1>3. /\ proc'[p] = r /\ \A q \in Procs : q # p => proc'[q] = proc[q]
      /\ \A q \in Procs : Sound(q, proc[q])
  BY <1>2 DEF TypeOK, LockInv
<1>4. SUFFICES ASSUME NEW q \in Procs, Relies(proc'[q], level)
               PROVE  path'[level] # NoFile /\ path'[level].by = q
  BY DEF Guarded, Relies
<1>5. CASE Publishes(p, r) /\ level = proc[p].level
  <2>1. q = p
    BY <1>3, <1>4, <1>5 DEF Publishes, Guarded
  <2>2. QED
    BY <1>5, <2>1 DEF Publishes, LockConstants
<1>6. CASE ~(Publishes(p, r) /\ level = proc[p].level)
  <2>1. Relies(proc[q], level)
    <3>1. CASE q # p
      BY <1>3, <1>4, <3>1
    <3>2. CASE q = p /\ (Ordinary(p, r) \/ Writes(p, r))
      BY <1>3, <1>4, <3>2 DEF Ordinary, Writes, Outcome
    <3>3. CASE q = p /\ Starts(p, r)
      BY <1>3, <1>4, <3>3 DEF Starts, Relies, Sound, Levels
    <3>4. CASE q = p /\ Publishes(p, r)
      BY <1>3, <1>4, <1>6, <3>4 DEF Publishes, Relies, Levels, Alive
    <3>5. CASE q = p /\ Reads(p, r)
      BY <1>3, <1>4, <3>5 DEF Reads, Relies, Levels
    <3>6. CASE q = p /\ Ends(p, r)
      BY <1>3, <1>4, <3>6 DEF Ends, Relies
    <3>7. QED
      BY <1>1, <3>1, <3>2, <3>3, <3>4, <3>5, <3>6
  <2>2. path[level] # NoFile /\ path[level].by = q
    BY <2>1 DEF Guarded
  <2>3. proc[q].pc \notin {"unstarted", "exited"} /\ ~proc[q].releasing
    BY <1>3, <2>1, ReliesMeans
  <2>4. path'[level] = path[level]
    <3>1. CASE Ordinary(p, r)
      <4>1. Takes(p, r, level)
        BY <3>1 DEF Ordinary, Directory
      <4>2. ~(path[level].by = p /\ proc[p].releasing) /\ ~DeadOwner(path[level])
        BY <2>2, <2>3 DEF DeadOwner, LockConstants
      <4>3. ~(/\ r.pc = "restore" /\ r.from = "path" /\ r.level = level
              /\ r.moved = path[level])
        BY <1>3, <1>4, <2>2 DEF Displaced, At, Relies
      <4>4. QED
        BY <2>2, <4>1, <4>2, <4>3 DEF Takes
    <3>2. CASE ~Ordinary(p, r)
      BY <1>1, <1>6, <3>2 DEF Starts, Publishes, Reads, Writes, Ends, Keep
    <3>3. QED
      BY <3>1, <3>2
  <2>5. QED
    BY <2>2, <2>4
<1>7. QED
  BY <1>5, <1>6

\* With the lock of either level, one process at a time has the record.
LEMMA GuardedExcludes ==
    ASSUME LockInv, NEW level \in Levels, Guarded(level) PROVE MutualExclusion
<1> SUFFICES ASSUME NEW p \in Procs, NEW q \in Procs, Holding(p), Holding(q) PROVE p = q
  BY DEF MutualExclusion
<1>1. Relies(proc[p], level) /\ Relies(proc[q], level)
  <2>1. Sound(p, proc[p]) /\ Sound(q, proc[q])
    BY DEF LockInv
  <2>2. QED
    BY <2>1 DEF Sound, Relies, Holding, Releasing, Levels
<1>2. QED
  BY <1>1 DEF Guarded

LEMMA FreshStep ==
    ASSUME LockConstants, TypeOK, LockInv, MutualExclusion, Fresh,
           NEW p \in Procs, Step(p) \/ TimeOut(p) \/ Crash(p)
    PROVE  /\ Fresh'
           /\ record' # record => record'.version = record.version + 1
<1>1. PICK r : \/ Starts(p, r)
               \/ /\ Alive(p)
                  /\ \/ Ordinary(p, r) \/ Publishes(p, r) \/ Reads(p, r)
                     \/ Writes(p, r) \/ Ends(p, r)
  BY StepIs
<1>2. /\ r \in Processes /\ proc' = [proc EXCEPT ![p] = r]
  BY <1>1 DEF Starts, Ordinary, Publishes, Reads, Writes, Ends, Outcome
<1>3. /\ proc'[p] = r /\ \A q \in Procs : q # p => proc'[q] = proc[q]
  BY <1>2 DEF TypeOK
<1>4. CASE Writes(p, r)
  <2>1. proc[p].expected = record.version
    BY <1>4 DEF Writes, Fresh
  <2>2. r.pc # "write"
    BY <1>4 DEF Writes, Outcome
  <2>3. \A q \in Procs : q # p => proc[q].pc # "write"
    BY <1>4 DEF Writes, MutualExclusion, Holding
  <2>4. QED
    BY <1>3, <1>4, <2>1, <2>2, <2>3 DEF Writes, Fresh
<1>5. CASE ~Writes(p, r)
  <2>1. record' = record
    BY <1>1, <1>5 DEF Starts, Ordinary, Publishes, Reads, Ends, Keep
  <2>2. r.pc = "write" => r.expected = record.version
    BY <1>1, <1>5 DEF Starts, Ordinary, Publishes, Reads, Ends, Outcome
  <2>3. QED
    BY <1>3, <2>1, <2>2 DEF Fresh
<1>6. QED
  BY <1>4, <1>5

\* Who has the record has read back its own owner lock.
Entered == \A p \in Procs : Holding(p) => proc[p].got["owner"].by = p

LEMMA EnteredStep ==
    ASSUME LockConstants, TypeOK, LockInv, Guarded("owner"), Entered,
           NEW p \in Procs, Step(p) \/ TimeOut(p) \/ Crash(p)
    PROVE  Entered'
<1>1. PICK r : \/ Starts(p, r)
               \/ /\ Alive(p)
                  /\ \/ Ordinary(p, r) \/ Publishes(p, r) \/ Reads(p, r)
                     \/ Writes(p, r) \/ Ends(p, r)
  BY StepIs
<1>2. /\ r \in Processes /\ proc' = [proc EXCEPT ![p] = r]
  BY <1>1 DEF Starts, Ordinary, Publishes, Reads, Writes, Ends, Outcome
<1>3. /\ proc'[p] = r /\ \A q \in Procs : q # p => proc'[q] = proc[q]
  BY <1>2 DEF TypeOK
<1>4. r.pc \in {"read", "write"} => r.got["owner"].by = p
  <2>1. CASE Ordinary(p, r)
    <3>1. r.pc # "write" /\ (r.pc = "read" => r.got["owner"] = path["owner"])
      BY <2>1 DEF Ordinary, Outcome
    <3>2. Relies(r, "owner") => path["owner"].by = p
      BY <2>1 DEF Ordinary, Outcome, Guarded, Levels
    <3>3. QED
      BY <3>1, <3>2 DEF Relies
  <2>2. CASE Reads(p, r)
    BY <2>2 DEF Reads, Entered, Holding
  <2>3. CASE Starts(p, r) \/ Publishes(p, r) \/ Writes(p, r) \/ Ends(p, r)
    BY <2>3 DEF Starts, Publishes, Writes, Outcome, Ends
  <2>4. QED
    BY <1>1, <2>1, <2>2, <2>3
<1>5. QED
  BY <1>3, <1>4 DEF Entered, Holding

LEMMA Stutters ==
    ASSUME UNCHANGED vars
    PROVE  /\ (TypeOK => TypeOK') /\ (LockInv => LockInv') /\ (Counted => Counted')
           /\ (Fresh => Fresh') /\ (Entered => Entered')
           /\ \A level \in Levels : Guarded(level) => Guarded(level)'
<1> USE DEF vars
<1>1. TypeOK => TypeOK'
  BY DEF TypeOK
<1>2. LockInv => LockInv'
  <2>1. \A p \in Procs : Alive(p)' <=> Alive(p)
    BY DEF Alive
  <2>2. \A file : (Known(file)' <=> Known(file)) /\ (DeadOwner(file)' <=> DeadOwner(file))
    BY <2>1 DEF Known, DeadOwner
  <2>3. \A p \in Procs : Sound(p, proc[p]) => Sound(p, proc[p])'
    BY <2>2 DEF Sound, OwnTarget
  <2>4. QED
    BY <2>1, <2>2, <2>3 DEF LockInv
<1>3. Counted => Counted'
  BY DEF Counted, Spent
<1>4. (Fresh => Fresh') /\ (Entered => Entered')
  BY DEF Fresh, Entered, Holding
<1>5. \A level \in Levels : Guarded(level) => Guarded(level)'
  BY DEF Guarded, Relies
<1>6. QED
  BY <1>1, <1>2, <1>3, <1>4, <1>5

-----------------------------------------------------------------------------
(* When no lock is left behind.                                            *)

\* The lock of a level names a process that is gone.
Abandoned(level) == path[level] # NoFile /\ DeadOwner(path[level])

\* Who starts over, or goes on to publish, reclaims nothing.
Over(r) ==
    ~r.reclaiming /\ r.pc \in {"publish", "recover", "release", "done", "failed"}

\* Nobody reclaims a lock of the level, and only fences are moved aside by mistake.
Orderly(s, level) ==
    /\ s.pc \in {"publish", "published"} => ~s.reclaiming
    /\ s.level = level =>
          /\ ~s.reclaiming
          /\ s.pc \notin {"confirm-fence", "confirm-lock", "retire-lock",
                          "retire-recovered", "recheck"}
          /\ s.pc \in {"restore", "restored"} =>
                s.from = "fence" /\ s.resume \notin {"recover-lock", "reclaimed"}

\* Who is about to retire its own lock finds it in place.
Attached(s, level, file) ==
    s.level = level /\ s.releasing /\ s.pc \in {"snapshot", "check-fence", "reclaim"} =>
        file = s.got[level]

Undisturbed(level) ==
    \A p \in Procs : Orderly(proc[p], level) /\ Attached(proc[p], level, path[level])

LEMMA OverOrderly ==
    ASSUME NEW r, NEW level, NEW file, Over(r)
    PROVE  Orderly(r, level) /\ Attached(r, level, file)
BY DEF Over, Orderly, Attached

LEMMA ForgetOver ==
    ASSUME NEW s \in Processes
    PROVE  /\ Over(Again(s)) /\ Over(ReleaseFrom(s)) /\ Over(AfterRelease(s))
           /\ Over(Throw(s)) /\ Over(AfterFence(s)) /\ Over(GiveUp(s))
<1>1. Over(Again(s)) /\ Over(ReleaseFrom(s)) /\ Over(AfterRelease(s))
  BY DEF Over, Again, ReleaseFrom, AfterRelease, Forget, Unstarted
<1>2. [s EXCEPT !.failing = TRUE] \in Processes
  BY DEF Processes
<1>3. Over(Throw(s))
  BY <1>2 DEF Throw, Over, ReleaseFrom, AfterRelease, Forget, Unstarted
<1>4. QED
  BY <1>1, <1>3 DEF AfterFence, GiveUp

\* What retireObservedPath goes on to.
LEMMA ResumeOver ==
    ASSUME NEW s \in Processes, NEW result \in BOOLEAN, s.resume # "none"
    PROVE  LET r == Resume(s, result)
           IN  /\ Over(r) \/ (r.level = s.level /\ r.pc \notin {"publish", "published"})
               /\ (~s.reclaiming /\ s.resume \notin {"recover-lock", "reclaimed"}) => Over(r)
<1> DEFINE t == [s EXCEPT !.moved = NoFile, !.from = "path", !.resume = "none"]
<1>1. t \in Processes /\ t.level = s.level /\ t.reclaiming = s.reclaiming
  BY DEF Processes, Entries
<1>2. /\ Over(Again(t)) /\ Over(AfterFence(t))
  BY <1>1, ForgetOver
<1>3. /\ s.reclaiming => Recovered(t).pc = "snapshot" /\ Recovered(t).level = s.level
      /\ ~s.reclaiming => Over(Recovered(t))
  BY <1>1 DEF Recovered, Over, Processes
<1>4. CASE s.resume = "recover-fence" \/ s.resume = "recovered"
  <2>1. Resume(s, result) \in {Recovered(t), Again(t)}
    BY <1>4 DEF Resume
  <2>2. QED
    BY <1>2, <1>3, <1>4, <2>1 DEF Processes
<1>5. CASE s.resume = "fence-dropped"
  <2>1. Resume(s, result) = AfterFence(t)
    BY <1>5 DEF Resume
  <2>2. QED
    BY <1>2, <2>1
<1>6. CASE s.resume = "recover-lock"
  <2>1. Resume(s, result) = [t EXCEPT !.pc = "retire-recovered", !.retired = result]
    BY <1>6 DEF Resume
  <2>2. QED
    BY <1>1, <1>6, <2>1 DEF Processes
<1>7. CASE s.resume = "reclaimed"
  <2>1. Resume(s, result) = [t EXCEPT !.pc = "drop-fence"]
    BY <1>7 DEF Resume
  <2>2. QED
    BY <1>1, <1>7, <2>1 DEF Processes
<1>8. QED
  BY <1>4, <1>5, <1>6, <1>7 DEF Processes

LEMMA ResumeErrorOver ==
    ASSUME NEW s \in Processes
    PROVE  IF s.resume = "reclaimed"
           THEN ResumeError(s).level = s.level /\ ResumeError(s).pc = "drop-fence"
           ELSE Over(ResumeError(s))
BY ForgetOver DEF ResumeError, Processes

\* retireObservedPath moves aside the lock of the level only if it is what it looks for.
LEMMA RetireOrderly ==
    ASSUME TypeOK, NEW level \in Levels, NEW p \in Procs, NEW from \in {"path", "fence"},
           NEW expected,
           NEW resume \in {"recover-fence", "recover-lock", "recovered", "reclaimed",
                           "fence-dropped"},
           Retire(p, proc[p], from, expected, resume),
           proc[p].level = level =>
              /\ ~proc[p].reclaiming
              /\ \/ from = "fence" /\ resume \notin {"recover-lock", "reclaimed"}
                 \/ /\ from = "path" /\ resume = "reclaimed"
                    /\ path[level] = expected /\ path[level] # NoFile
    PROVE  Orderly(proc'[p], level) /\ Attached(proc'[p], level, path'[level])
<1> DEFINE s == proc[p]
           at == [s EXCEPT !.resume = resume, !.from = from]
           file == (IF from = "path" THEN path ELSE fence)[s.level]
<1>1. /\ s \in Processes /\ at \in Processes /\ at.resume = resume
      /\ at.level = s.level /\ at.reclaiming = s.reclaiming
  <2>1. s \in Processes
    BY DEF TypeOK
  <2> HIDE DEF s
  <2>2. at \in Processes /\ at.resume = resume
    BY <2>1 DEF Processes
  <2>3. at.level = s.level /\ at.reclaiming = s.reclaiming
    BY <2>1 DEF Processes
  <2>4. QED
    BY <2>1, <2>2, <2>3
<1>2. PICK r : /\ proc' = [proc EXCEPT ![p] = r]
               /\ \/ file = NoFile /\ r = Resume(at, FALSE)
                  \/ file = expected /\ file # NoFile /\ r = Resume(at, TRUE)
                  \/ file \notin {NoFile, expected}
                        /\ r = [at EXCEPT !.pc = "restore", !.moved = file]
  BY DEF Retire, Become
<1>3. proc'[p] = r
  BY <1>2 DEF TypeOK
<1>4. CASE r \in {Resume(at, FALSE), Resume(at, TRUE)}
  <2>1. /\ Over(r) \/ (r.level = s.level /\ r.pc \notin {"publish", "published"})
        /\ ~s.reclaiming /\ resume \notin {"recover-lock", "reclaimed"} => Over(r)
    BY <1>1, <1>4, ResumeOver
  <2>2. CASE Over(r)
    BY <1>3, <2>2, OverOrderly
  <2>3. CASE ~Over(r) /\ s.level # level
    BY <1>3, <2>1, <2>3 DEF Orderly, Attached
  <2>4. CASE ~Over(r) /\ s.level = level
    <3>1. resume = "reclaimed"
      BY <2>1, <2>4
    <3>2. r.pc = "drop-fence" /\ ~r.reclaiming
      BY <1>1, <1>4, <2>4, <3>1 DEF Resume, Processes
    <3>3. QED
      BY <1>3, <3>2 DEF Orderly, Attached
  <2>5. QED
    BY <2>2, <2>3, <2>4
<1>5. CASE r = [at EXCEPT !.pc = "restore", !.moved = file] /\ file \notin {NoFile, expected}
  <2>1. /\ r.pc = "restore" /\ r.level = s.level /\ r.reclaiming = s.reclaiming
        /\ r.from = from /\ r.resume = resume
    BY <1>5 DEF TypeOK, Processes
  <2>2. QED
    BY <1>3, <1>5, <2>1 DEF Orderly, Attached
<1>6. QED
  BY <1>2, <1>4, <1>5

\* While the lock of the level is not left behind, a process that moves reclaims
\* nothing, and retires its own lock where it is.
LEMMA MoverOrderly ==
    ASSUME LockConstants, TypeOK, LockInv, NEW level \in Levels,
           Undisturbed(level), ~Abandoned(level),
           NEW p \in Procs, Step(p) \/ TimeOut(p) \/ Crash(p)
    PROVE  Orderly(proc'[p], level) /\ Attached(proc'[p], level, path'[level])
<1> DEFINE s == proc[p]
<1>0. /\ s \in Processes /\ Sound(p, s) /\ Orderly(s, level) /\ Attached(s, level, path[level])
      /\ \A r : Become(p, r) => proc'[p] = r
  BY DEF TypeOK, LockInv, Undisturbed, Become
<1>1. ASSUME NEW r, Become(p, r), Over(r)
      PROVE  Orderly(proc'[p], level) /\ Attached(proc'[p], level, path'[level])
  BY <1>0, <1>1, OverOrderly
<1>2. /\ Over(Again(s)) /\ Over(ReleaseFrom(s)) /\ Over(AfterRelease(s))
      /\ Over(Throw(s)) /\ Over(AfterFence(s)) /\ Over(GiveUp(s))
  BY <1>0, ForgetOver
<1>q. ASSUME NEW r, Become(p, r), r.level = s.level, r.got = s.got,
             r.reclaiming = s.reclaiming, r.releasing = s.releasing,
             r.pc \notin {"restore", "restored"},
             r.pc \in {"publish", "published"} => ~s.reclaiming,
             s.level = level =>
                r.pc \notin {"confirm-fence", "confirm-lock", "retire-lock",
                             "retire-recovered", "recheck"},
             s.level = level /\ s.releasing
             /\ r.pc \in {"snapshot", "check-fence", "reclaim"} =>
                path'[level] = s.got[level]
      PROVE  Orderly(proc'[p], level) /\ Attached(proc'[p], level, path'[level])
  BY <1>0, <1>q DEF Orderly, Attached
<1>p. ASSUME NEW pc, Become(p, [s EXCEPT !.pc = pc]),
             pc \notin {"restore", "restored"},
             pc \in {"publish", "published"} => ~s.reclaiming,
             s.level = level =>
                pc \notin {"confirm-fence", "confirm-lock", "retire-lock",
                           "retire-recovered", "recheck"},
             s.level = level /\ s.releasing
             /\ pc \in {"snapshot", "check-fence", "reclaim"} =>
                path'[level] = s.got[level]
      PROVE  Orderly(proc'[p], level) /\ Attached(proc'[p], level, path'[level])
  <2> DEFINE r == [s EXCEPT !.pc = pc]
  <2>1. /\ r.pc = pc /\ r.level = s.level /\ r.got = s.got
        /\ r.reclaiming = s.reclaiming /\ r.releasing = s.releasing
    BY <1>0 DEF Processes
  <2>2. Become(p, r)
    BY <1>p
  <2> HIDE DEF r
  <2>3. QED
    BY <1>q, <1>p, <2>1, <2>2
<1>3. CASE Start(p) \/ RecoverFence(p) \/ TimeOut(p)
  <2>1. CASE Start(p)
    <3> DEFINE r == [s EXCEPT !.pc = "recover", !.expected = record.version]
    <3>1. /\ r.pc = "recover" /\ r.level = s.level /\ r.got = s.got
          /\ r.reclaiming = s.reclaiming /\ r.releasing = s.releasing
      BY <1>0 DEF Processes
    <3>2. Become(p, r)
      BY <2>1 DEF Start
    <3> HIDE DEF r
    <3>3. QED
      BY <1>q, <3>1, <3>2
  <2>2. CASE RecoverFence(p)
    <3>1. PICK pc \in {"observe-fence", "snapshot", "publish"} :
             /\ Become(p, [s EXCEPT !.pc = pc])
             /\ pc = "snapshot" => s.reclaiming
             /\ pc = "publish" => ~s.reclaiming
      BY <1>0, <2>2 DEF RecoverFence, Processes
    <3>2. s.pc = "recover" /\ ~s.releasing
      BY <1>0, <2>2 DEF RecoverFence, At, Sound, Releasing, Processes
    <3>3. QED
      BY <1>0, <1>p, <3>1, <3>2 DEF Orderly
  <2>3. CASE TimeOut(p)
    BY <1>1, <1>2, <2>3 DEF TimeOut
  <2>4. QED
    BY <1>3, <2>1, <2>2, <2>3
<1>4. CASE ObserveFence(p)
  <2>1. [s EXCEPT !.snap = fence[s.level]] \in Processes
    BY <1>0 DEF TypeOK, Processes
  <2>2. CASE Become(p, Throw([s EXCEPT !.snap = fence[s.level]]))
    BY <1>1, <2>1, <2>2, ForgetOver
  <2>3. CASE Become(p, [s EXCEPT !.snap = fence[s.level], !.pc = "observe-fenced"])
    <3> DEFINE r == [s EXCEPT !.snap = fence[s.level], !.pc = "observe-fenced"]
    <3>1. /\ r.pc = "observe-fenced" /\ r.level = s.level /\ r.got = s.got
          /\ r.reclaiming = s.reclaiming /\ r.releasing = s.releasing
      BY <1>0 DEF Processes
    <3>2. Become(p, r)
      BY <2>3
    <3> HIDE DEF r
    <3>3. QED
      BY <1>q, <3>1, <3>2
  <2>4. QED
    BY <1>4, <2>2, <2>3 DEF ObserveFence
<1>5. CASE ObserveFenced(p)
  <2>1. CASE Become(p, [s EXCEPT !.pc = "retire-fence"])
    BY <1>p, <2>1
  <2>2. CASE Become(p, Again(s))
    BY <1>1, <1>2, <2>2
  <2>3. CASE /\ path[s.level] = s.snap /\ Stale(s.level, path[s.level])
             /\ Become(p, [s EXCEPT !.pc = "confirm-fence"])
    <3>1. s.snap # NoFile /\ s.level \in Levels
      BY <1>0, <1>5 DEF ObserveFenced, At, Sound, Processes
    <3>2. Known(path[s.level]) /\ path[s.level] \in Files
      BY <2>3, <3>1 DEF LockInv, TypeOK, Entries
    <3>3. DeadOwner(path[s.level])
      BY <2>3, <3>1, <3>2, StaleIsDead
    <3>4. s.level # level
      BY <2>3, <3>1, <3>3 DEF Abandoned
    <3>5. QED
      BY <1>p, <2>3, <3>4
  <2>4. QED
    BY <1>5, <2>1, <2>2, <2>3 DEF ObserveFenced
<1>6. CASE ConfirmFence(p) \/ ConfirmLock(p)
  BY <1>0, <1>1, <1>2, <1>6 DEF ConfirmFence, ConfirmLock, At, Processes, Orderly, Attached,
     Become
<1>7. CASE RetireFence(p) \/ RetireLock(p) \/ RetireRecovered(p)
  BY <1>0, <1>7, RetireOrderly DEF RetireFence, RetireLock, RetireRecovered, At, Orderly
<1>8. CASE DropFence(p)
  BY <1>0, <1>8, RetireOrderly DEF DropFence, At, Orderly
<1>9. CASE Reclaim(p)
  BY <1>0, <1>9, RetireOrderly DEF Reclaim, At, Orderly, Attached, Target, Sound, OwnTarget
<1>10. CASE Restore(p) \/ Restored(p)
  <2>1. /\ s.pc \in {"restore", "restored"} /\ s.resume # "none"
        /\ s.level = level =>
              /\ ~s.reclaiming
              /\ s.from = "fence" /\ s.resume \notin {"recover-lock", "reclaimed"}
    BY <1>0, <1>10 DEF Restore, Restored, At, Sound, Orderly
  <2>2. ASSUME NEW r, Become(p, r),
               Over(r) \/ (r.level = s.level /\ r.pc \notin {"publish", "published"}),
               s.level = level => Over(r)
        PROVE  Orderly(proc'[p], level) /\ Attached(proc'[p], level, path'[level])
    BY <1>0, <1>1, <2>2 DEF Orderly, Attached
  <2>3. CASE Become(p, Resume(s, FALSE))
    <3>1. LET r == Resume(s, FALSE)
          IN  /\ Over(r) \/ (r.level = s.level /\ r.pc \notin {"publish", "published"})
              /\ (~s.reclaiming /\ s.resume \notin {"recover-lock", "reclaimed"}) => Over(r)
      BY <1>0, <2>1, ResumeOver
    <3>2. QED
      BY <2>1, <2>2, <2>3, <3>1
  <2>4. CASE Become(p, ResumeError(s))
    <3>1. IF s.resume = "reclaimed"
          THEN ResumeError(s).level = s.level /\ ResumeError(s).pc = "drop-fence"
          ELSE Over(ResumeError(s))
      BY <1>0, ResumeErrorOver
    <3>2. QED
      BY <2>1, <2>2, <2>4, <3>1
  <2>5. CASE Become(p, [s EXCEPT !.pc = "restored"])
    <3>1. LET r == [s EXCEPT !.pc = "restored"]
          IN  /\ r.pc = "restored" /\ r.level = s.level /\ r.reclaiming = s.reclaiming
              /\ r.from = s.from /\ r.resume = s.resume
      BY <1>0 DEF Processes
    <3>2. QED
      BY <1>0, <2>1, <2>5, <3>1 DEF Orderly, Attached
  <2>6. QED
    <3>1. CASE Restore(p)
      BY <2>4, <2>5, <3>1 DEF Restore
    <3>2. CASE Restored(p)
      BY <2>3, <2>4, <3>2 DEF Restored
    <3>3. QED
      BY <1>10, <3>1, <3>2
<1>11. CASE Publish(p)
  <2>1. s.pc = "publish" /\ ~s.reclaiming
    BY <1>0, <1>11 DEF Publish, At, Orderly
  <2>2. CASE Become(p, [s EXCEPT !.pc = "observe"])
    BY <1>p, <2>2
  <2>3. ASSUME NEW n, Become(p, [s EXCEPT !.pc = "published", !.files[s.level] = n])
        PROVE  Orderly(proc'[p], level) /\ Attached(proc'[p], level, path'[level])
    <3> DEFINE r == [s EXCEPT !.pc = "published", !.files[s.level] = n]
    <3>1. /\ r.pc = "published" /\ r.level = s.level /\ r.got = s.got
          /\ r.reclaiming = s.reclaiming /\ r.releasing = s.releasing
      BY <1>0 DEF Processes
    <3>2. Become(p, r)
      BY <2>3
    <3> HIDE DEF r
    <3>3. QED
      BY <1>q, <2>1, <3>1, <3>2
  <2>4. QED
    BY <1>11, <2>2, <2>3 DEF Publish
<1>12. CASE Published(p)
  BY <1>0, <1>12 DEF Published, At, Processes, Orderly, Attached, Become
<1>13. CASE Observe(p)
  BY <1>0, <1>1, <1>13, StaleIsDead, ForgetOver DEF Observe, At, Processes, Orderly, Attached,
     Become, Abandoned, LockInv, TypeOK, Entries
<1>14. CASE Release(p) \/ Snapshot(p)
  <2>1. CASE Release(p)
    <3>1. s.pc = "release" /\ s.releasing /\ path' = path
      BY <1>0, <2>1 DEF Release, At, Sound, Keep
    <3>2. CASE /\ path[s.level] = Target(s)
               /\ Become(p, [s EXCEPT !.pc = "snapshot"])
      BY <1>p, <3>1, <3>2 DEF Target
    <3>3. CASE Become(p, AfterRelease(s))
      BY <1>1, <1>2, <3>3
    <3>4. QED
      BY <2>1, <3>2, <3>3 DEF Release
  <2>2. CASE Snapshot(p)
    <3>1. s.pc = "snapshot" /\ path' = path
      BY <2>2 DEF Snapshot, At
    <3>2. CASE Become(p, [s EXCEPT !.pc = "check-fence"])
      <4>1. s.level = level /\ s.releasing => path'[level] = s.got[level]
        BY <1>0, <3>1 DEF Attached
      <4>2. QED
        BY <1>p, <3>2, <4>1
    <3>3. CASE Become(p, GiveUp(s))
      BY <1>1, <1>2, <3>3
    <3>4. QED
      BY <2>2, <3>2, <3>3 DEF Snapshot
  <2>3. QED
    BY <1>14, <2>1, <2>2
<1>15. CASE CheckFence(p) \/ Recheck(p)
  <2>1. CASE CheckFence(p)
    <3> DEFINE t == [s EXCEPT !.snap = fence[s.level]]
    <3>1. s.pc = "check-fence" /\ path' = path
      BY <2>1 DEF CheckFence, At, Keep
    <3>2. /\ t \in Processes /\ t.releasing = s.releasing /\ t.level = s.level
          /\ t.reclaiming = s.reclaiming /\ t.got = s.got
      BY <1>0 DEF TypeOK, Processes
    <3>3. s.level = level /\ s.releasing => path'[level] = s.got[level]
      BY <1>0, <3>1 DEF Attached
    <3>4. s.releasing \/ s.reclaiming
      BY <1>0, <3>1 DEF Sound
    <3>5. PICK r : /\ Become(p, r)
                   /\ \/ r = GiveUp(t)
                      \/ r = [t EXCEPT !.pc = IF t.releasing THEN "reclaim" ELSE "recheck"]
                      \/ r = [t EXCEPT !.pc = "drop-fence"]
      BY <2>1 DEF CheckFence
    <3>6. CASE r = GiveUp(t)
      BY <1>1, <3>2, <3>5, <3>6, ForgetOver
    <3>7. CASE r # GiveUp(t)
      <4>1. /\ r.pc \in {"reclaim", "recheck", "drop-fence"}
            /\ r.pc = "recheck" => ~s.releasing
            /\ r.level = s.level /\ r.got = s.got
            /\ r.reclaiming = s.reclaiming /\ r.releasing = s.releasing
        BY <3>2, <3>5, <3>7 DEF Processes
      <4>2. s.level = level => ~s.reclaiming
        BY <1>0 DEF Orderly
      <4>3. QED
        BY <1>q, <3>3, <3>4, <3>5, <4>1, <4>2
    <3>8. QED
      BY <3>6, <3>7
  <2>2. CASE Recheck(p)
    <3>1. s.pc = "recheck" /\ s.level # level
      BY <1>0, <2>2 DEF Recheck, At, Orderly
    <3>2. PICK pc \in {"reclaim", "drop-fence"} : Become(p, [s EXCEPT !.pc = pc])
      BY <2>2 DEF Recheck
    <3>3. QED
      BY <1>p, <3>1, <3>2
  <2>3. QED
    BY <1>15, <2>1, <2>2
<1>16. CASE ReadRecord(p) \/ WriteRecord(p) \/ Exit(p) \/ Crash(p)
  <2>1. CASE Become(p, ReleaseFrom(s))
    BY <1>1, <1>2, <2>1
  <2>2. CASE Become(p, [s EXCEPT !.pc = "write"])
    BY <1>p, <2>2
  <2>3. CASE Become(p, Gone(s))
    <3>1. Gone(s).pc = "exited" /\ ~Gone(s).reclaiming
      BY DEF Gone, Unstarted
    <3>2. QED
      BY <1>0, <2>3, <3>1 DEF Orderly, Attached
  <2>4. QED
    BY <1>16, <2>1, <2>2, <2>3 DEF ReadRecord, WriteRecord, Exit, Crash
<1>17. QED
  BY <1>3, <1>4, <1>5, <1>6, <1>7, <1>8, <1>9, <1>10, <1>11, <1>12, <1>13, <1>14, <1>15,
     <1>16 DEF Step

\* And the others find theirs where they were.
LEMMA UndisturbedStep ==
    ASSUME LockConstants, TypeOK, LockInv, NEW level \in Levels,
           Undisturbed(level), ~Abandoned(level),
           NEW p \in Procs, Step(p) \/ TimeOut(p) \/ Crash(p)
    PROVE  Undisturbed(level)'
<1>1. Orderly(proc'[p], level) /\ Attached(proc'[p], level, path'[level])
  BY MoverOrderly
<1>2. PICK r : \/ Starts(p, r)
               \/ /\ Alive(p)
                  /\ \/ Ordinary(p, r) \/ Publishes(p, r) \/ Reads(p, r)
                     \/ Writes(p, r) \/ Ends(p, r)
  BY StepIs
<1>3. proc' = [proc EXCEPT ![p] = r]
  BY <1>2 DEF Starts, Ordinary, Publishes, Reads, Writes, Ends
<1>4. proc'[p] = r /\ \A q \in Procs : q # p => proc'[q] = proc[q]
  BY <1>3 DEF TypeOK
<1>5. \/ path'[level] = path[level] \/ path[level] = NoFile
      \/ path[level].by = p
  <2>1. CASE Ordinary(p, r)
    <3>1. Takes(p, r, level)
      BY <2>1 DEF Ordinary, Directory
    <3>2. ~(r.pc = "restore" /\ r.from = "path" /\ r.level = level)
      BY <1>1, <1>4 DEF Orderly
    <3>3. QED
      BY <3>1, <3>2 DEF Takes, Abandoned
  <2>2. CASE ~Ordinary(p, r)
    BY <1>2, <2>2 DEF Starts, Publishes, Reads, Writes, Ends, Keep
  <2>3. QED
    BY <2>1, <2>2
<1>6. ASSUME NEW q \in Procs, q # p
      PROVE  Orderly(proc'[q], level) /\ Attached(proc'[q], level, path'[level])
  <2>1. Orderly(proc[q], level) /\ Attached(proc[q], level, path[level]) /\ Sound(q, proc[q])
    BY DEF Undisturbed, LockInv
  <2>2. ASSUME proc[q].level = level, proc[q].releasing,
               proc[q].pc \in {"snapshot", "check-fence", "reclaim"}
        PROVE  path'[level] = proc[q].got[level]
    <3>1. path[level] = proc[q].got[level] /\ path[level] # NoFile
      BY <2>1, <2>2 DEF Attached, Sound, OwnTarget
    <3>2. path[level].by = q
      BY <2>1, <2>2, <3>1 DEF Sound, OwnTarget, Abandoned
    <3>3. QED
      BY <1>5, <1>6, <3>1, <3>2
  <2>3. QED
    BY <1>4, <1>6, <2>1, <2>2 DEF Attached
<1>7. QED
  BY <1>1, <1>6 DEF Undisturbed

-----------------------------------------------------------------------------
\* Whatever locks and fences were left behind, whatever PIDs are given out again,
\* and wherever processes stop: live processes have different PIDs, a lock that
\* counts as stale is a dead process's, and what is retired under a fence is one's
\* own lock or such a one.
THEOREM LockInvariance ==
    ASSUME LockConstants PROVE Spec => []TypeOK /\ []LockInv
<1> DEFINE Inv == TypeOK /\ LockInv /\ Counted
<1>1. Init => Inv
  BY LockInit
<1>2. Inv /\ [Next]_vars => Inv'
  BY TypeStep, LockStep, Stutters DEF Next
<1>3. QED
  BY <1>1, <1>2, PTL DEF Spec

\* One process at a time is between reading and replacing the record as long as, at
\* one of the two levels, no lock that is relied on is moved aside by mistake: with
\* two locks, exclusion takes a mistake at both (withLock).
THEOREM Excludes ==
    ASSUME LockConstants, NEW level \in Levels
    PROVE  Spec /\ []~Displaced(level) => []MutualExclusion /\ []Guarded(level)
<1>1. Init => Guarded(level)
  BY LockInit
<1>2. /\ TypeOK /\ LockInv /\ Guarded(level) /\ ~Displaced(level)' /\ [Next]_vars
      => Guarded(level)'
  BY GuardedStep, Stutters DEF Next
<1>3. LockInv /\ Guarded(level) => MutualExclusion
  BY GuardedExcludes
<1>4. Spec => []TypeOK /\ []LockInv
  BY LockInvariance
<1>5. QED
  BY <1>1, <1>2, <1>3, <1>4, PTL DEF Spec

\* The same for the level that has owner files.
LEMMA OwnersExclude ==
    ASSUME LockConstants
    PROVE  Spec /\ []~Displaced("owner") => []MutualExclusion /\ []Guarded("owner")
<1>0. "owner" \in Levels
  BY DEF Levels
<1>1. Init => Guarded("owner")
  BY <1>0, LockInit
<1>2. /\ TypeOK /\ LockInv /\ Guarded("owner") /\ ~Displaced("owner")' /\ [Next]_vars
      => Guarded("owner")'
  BY <1>0, GuardedStep, Stutters DEF Next
<1>3. LockInv /\ Guarded("owner") => MutualExclusion
  BY <1>0, GuardedExcludes
<1>4. Spec => []TypeOK /\ []LockInv
  BY LockInvariance
<1>5. QED
  BY <1>1, <1>2, <1>3, <1>4, PTL DEF Spec

\* And then a process only replaces the version it compared with: no update is lost
\* (record-cas).
THEOREM LosesNoUpdate ==
    ASSUME LockConstants, NEW level \in Levels
    PROVE  Spec /\ []~Displaced(level) => NoLostUpdate
<1>1. Init => Fresh
  BY LockInit
<1>2. /\ TypeOK /\ LockInv /\ MutualExclusion /\ Fresh /\ [Next]_vars
      => Fresh' /\ [record'.version = record.version + 1]_record
  BY FreshStep, Stutters DEF Next, vars
<1>3. Spec => []TypeOK /\ []LockInv
  BY LockInvariance
<1>4. Spec /\ []~Displaced(level) => []MutualExclusion
  BY Excludes
<1>5. QED
  BY <1>1, <1>2, <1>3, <1>4, PTL DEF Spec, NoLostUpdate

\* Nor does a process go on with a lock of another: with PIDs that differ it has the
\* two locks it published, although it takes them by reading a name back.
THEOREM HasOwnLocks ==
    ASSUME LockConstants,
           \A p, q \in Procs \union {Dead} : PidOf[p] = PidOf[q] => p = q
    PROVE  Spec /\ []~Displaced("owner") => []HoldsOwnLocks
<1>1. Init => Entered
  BY DEF Init, Entered, Holding, Unstarted
<1>2. TypeOK /\ LockInv /\ Guarded("owner") /\ Entered /\ [Next]_vars => Entered'
  <2> SUFFICES ASSUME TypeOK, LockInv, Guarded("owner"), Entered, [Next]_vars
               PROVE  Entered'
    OBVIOUS
  <2>1. CASE Next
    <3>1. PICK p \in Procs : Step(p) \/ TimeOut(p) \/ Crash(p)
      BY <2>1 DEF Next
    <3>2. QED
      BY <3>1, EnteredStep
  <2>2. CASE UNCHANGED vars
    BY <2>2, Stutters
  <2>3. QED
    BY <2>1, <2>2
<1>3. TypeOK /\ LockInv /\ Entered => HoldsOwnLocks
  <2> SUFFICES ASSUME TypeOK, LockInv, Entered, NEW p \in Procs, Holding(p)
               PROVE  proc[p].got["lock"].by = p /\ proc[p].got["owner"].by = p
    BY DEF HoldsOwnLocks, Levels
  <2>1. /\ proc[p] \in Processes /\ proc[p].level = "owner" /\ proc[p].got["lock"] # NoFile
        /\ PidOf[proc[p].got["lock"].by] = PidOf[p]
    BY DEF TypeOK, LockInv, Sound, Holding
  <2>2. proc[p].got["lock"].by \in Procs \union {Dead}
    BY <2>1 DEF Processes, Entries, Files, Levels
  <2>3. QED
    BY <2>1, <2>2 DEF Entered
<1>4. Spec => []TypeOK /\ []LockInv
  BY LockInvariance
<1>5. Spec /\ []~Displaced("owner") => []Guarded("owner")
  BY OwnersExclude
<1>6. QED
  BY <1>1, <1>2, <1>3, <1>4, <1>5, PTL DEF Spec

\* As long as no process leaves its lock behind at one of the levels (because it stops,
\* or gives its release up), nothing that is relied on is moved aside there, and with
\* that one process at a time has the record and no update is lost.
THEOREM ExcludesUnlessAbandoned ==
    ASSUME LockConstants, NEW level \in Levels
    PROVE  Spec /\ []~Abandoned(level) => []~Displaced(level) /\ []MutualExclusion
<1>1. Init => Undisturbed(level)
  BY DEF Init, Undisturbed, Orderly, Attached, Unstarted
<1>2. /\ TypeOK /\ LockInv /\ Undisturbed(level) /\ ~Abandoned(level) /\ [Next]_vars
      => Undisturbed(level)'
  <2>1. Undisturbed(level) /\ UNCHANGED vars => Undisturbed(level)'
    BY DEF Undisturbed, Orderly, Attached, vars
  <2>2. QED
    BY <2>1, UndisturbedStep DEF Next
<1>3. Undisturbed(level) => ~Displaced(level)
  BY DEF Undisturbed, Orderly, Displaced, At
<1>4. Spec => []TypeOK /\ []LockInv
  BY LockInvariance
<1>5. Spec /\ []~Displaced(level) => []MutualExclusion
  BY Excludes
<1>6. QED
  BY <1>1, <1>2, <1>3, <1>4, <1>5, PTL DEF Spec

\* Whatever goes wrong, a live process's lock only disappears when it is released, or
\* is moved aside by a process that looks at what it has moved.
THEOREM LocksAreKept == ASSUME LockConstants PROVE Spec => LockKept
<1>1. /\ TypeOK /\ LockInv /\ [Next]_vars
      => [\A level \in Levels :
             path[level] # NoFile /\ path'[level] # path[level] =>
                \/ DeadOwner(path[level])
                \/ proc[path[level].by].releasing
                \/ \E p \in Procs : At(p, "restore")' /\ proc'[p].moved = path[level]]_vars
  <2> SUFFICES ASSUME TypeOK, LockInv, NEW p \in Procs,
                      Step(p) \/ TimeOut(p) \/ Crash(p),
                      NEW level \in Levels,
                      path[level] # NoFile, path'[level] # path[level],
                      ~DeadOwner(path[level]), ~proc[path[level].by].releasing
               PROVE  At(p, "restore")' /\ proc'[p].moved = path[level]
    BY DEF Next, vars
  <2>1. PICK r : \/ Starts(p, r)
                 \/ /\ Alive(p)
                    /\ \/ Ordinary(p, r) \/ Publishes(p, r) \/ Reads(p, r)
                       \/ Writes(p, r) \/ Ends(p, r)
    BY StepIs
  <2>2. Ordinary(p, r)
    BY <2>1 DEF Starts, Publishes, Reads, Writes, Ends, Keep
  <2>3. Takes(p, r, level) /\ proc'[p] = r
    BY <2>2 DEF Ordinary, Directory, TypeOK
  <2>4. QED
    BY <2>3 DEF Takes, At
<1>2. QED
  BY <1>1, LockInvariance, PTL DEF Spec, LockKept
=============================================================================
