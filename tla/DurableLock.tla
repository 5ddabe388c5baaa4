----------------------------- MODULE DurableLock -----------------------------
(***************************************************************************)
(* The file lock of examples/generic-host/bin/durable-host-store.js and    *)
(* the compare-and-swap it protects.  withLock takes two locks in turn,    *)
(* the legacy PID file and the v2 owner file, each published by a hard     *)
(* link.  A lock whose owner is dead is reclaimed under a fence, a second  *)
(* hard link to the lock observed; a lock is only ever removed by renaming *)
(* it aside, looking at what was moved, and linking it back if it was not  *)
(* the expected file.  Every step below is one call to the file system.    *)
(***************************************************************************)
EXTENDS Naturals, FiniteSets

CONSTANTS
    Procs,        \* processes that each perform one compare-and-swap
    Dead,         \* a process that died before, and may have left locks behind
    NoFile,       \* no such file
    PidOf,        \* the operating system may give a PID out again
    MaxFiles,     \* bound: files a process publishes at each level
    MaxCrashes    \* bound: processes that stop before they finish

Levels == {"lock", "owner"}
Files == [by : Procs \union {Dead}, level : Levels, n : 0 .. MaxFiles]

\* What the constants must be, for a configuration.
LockConstants ==
    /\ IsFiniteSet(Procs)
    /\ Dead \notin Procs
    /\ NoFile \notin Files
    /\ DOMAIN PidOf = Procs \union {Dead}
    /\ MaxFiles \in Nat /\ MaxCrashes \in Nat

Entries == Files \union {NoFile}
DeadFile(level) == [by |-> Dead, level |-> level, n |-> 0]

VARIABLES
    path,    \* the directory entries of the two locks
    fence,   \* the directory entries of their reclaim fences
    record,  \* the record: its version and who wrote it
    proc,    \* what every process is doing
    crashes  \* processes stopped so far

vars == <<path, fence, record, proc, crashes>>

Unstarted ==
    [pc |-> "unstarted", level |-> "lock", releasing |-> FALSE,
     failing |-> FALSE, obs |-> NoFile, snap |-> NoFile, reclaiming |-> FALSE,
     retired |-> FALSE, moved |-> NoFile, from |-> "path", resume |-> "none",
     got |-> [level \in Levels |-> NoFile], files |-> [level \in Levels |-> 0],
     expected |-> 0]

\* What a process that stopped at any point may have left behind: its locks,
\* and the fence of the lock it was releasing or reclaiming.
Init ==
    /\ \E locks \in SUBSET Levels, fences \in SUBSET Levels :
          /\ path = [l \in Levels |-> IF l \in locks THEN DeadFile(l) ELSE NoFile]
          /\ fence = [l \in Levels |-> IF l \in fences THEN DeadFile(l) ELSE NoFile]
    /\ record = [version |-> 0, by |-> Dead]
    /\ proc = [p \in Procs |-> Unstarted]
    /\ crashes = 0

-----------------------------------------------------------------------------
(* Who is dead.                                                            *)

Alive(p) == proc[p].pc \notin {"unstarted", "exited"}
PidAlive(pid) == \E p \in Procs : Alive(p) /\ PidOf[p] = pid
OwnerAlive(file) == file.by \in Procs /\ Alive(file.by)

\* The owner file names the legacy file its process held, and when that
\* process started; a PID file says only the PID.
ObservesLegacy(owner, file) ==
    /\ owner # NoFile
    /\ \/ owner.by = Dead /\ file = DeadFile("lock")
       \/ owner.by \in Procs /\ proc[owner.by].got["lock"] = file

Stale(level, file) ==
    IF level = "owner"
    THEN ~OwnerAlive(file)
    ELSE \/ ~PidAlive(PidOf[file.by])
         \/ /\ ObservesLegacy(path["owner"], file)
            /\ ~OwnerAlive(path["owner"])

-----------------------------------------------------------------------------
(* Steps.  Goto changes the process; the directory changes beside it.      *)

Become(p, s) == proc' = [proc EXCEPT ![p] = s]
At(p, pc) == proc[p].pc = pc
Keep == UNCHANGED <<path, fence, record, crashes>>
Link(entries, level, file) == [entries EXCEPT ![level] = file]

\* A process forgets what it observed when it starts over or moves on.
Forget(s, pc) ==
    [Unstarted EXCEPT !.pc = pc, !.level = s.level, !.releasing = s.releasing,
                      !.failing = s.failing, !.got = s.got, !.files = s.files,
                      !.expected = s.expected]

\* The next attempt of an acquisition loop.
Again(s) == Forget(s, "recover")

\* Release the legacy lock first, then the owner lock, whatever goes wrong.
ReleaseFrom(s) ==
    [Forget(s, "release") EXCEPT !.level = "lock", !.releasing = TRUE]
AfterRelease(s) ==
    IF s.level = "lock" /\ s.got["owner"] # NoFile
    THEN [Forget(s, "release") EXCEPT !.level = "owner"]
    ELSE Forget(s, IF s.failing THEN "failed" ELSE "done")

\* An error leaves the loop; a process that holds the legacy lock releases it.
Throw(s) ==
    LET failed == [s EXCEPT !.failing = TRUE]
    IN  IF s.releasing THEN AfterRelease(failed)
        ELSE IF s.level = "owner" THEN ReleaseFrom(failed)
        ELSE Forget(failed, "failed")

\* Leave a block that held the fence.
AfterFence(s) ==
    IF s.releasing THEN AfterRelease(s) ELSE IF s.failing THEN Throw(s) ELSE Again(s)

\* A fence that was in the way is gone: go on with what it stood in the way of.
Recovered(s) ==
    [s EXCEPT !.pc = IF s.reclaiming THEN "snapshot" ELSE "publish",
              !.snap = NoFile, !.retired = FALSE]

\* The end of retireObservedPath at s.resume; result says whether it retired.
Resume(s, result) ==
    LET r == [s EXCEPT !.moved = NoFile, !.from = "path", !.resume = "none"]
    IN  CASE s.resume = "recover-fence" -> IF result THEN Recovered(r) ELSE Again(r)
          [] s.resume = "recover-lock"  -> [r EXCEPT !.pc = "retire-recovered",
                                                     !.retired = result]
          [] s.resume = "recovered"     -> IF s.retired THEN Recovered(r)
                                                        ELSE Again(r)
          [] s.resume = "reclaimed"     -> [r EXCEPT !.pc = "drop-fence"]
          [] s.resume = "fence-dropped" -> AfterFence(r)

\* The same when it raises an error; a fence held is still retired.
ResumeError(s) ==
    IF s.resume = "reclaimed"
    THEN [s EXCEPT !.pc = "drop-fence", !.failing = TRUE, !.moved = NoFile]
    ELSE Throw(s)

\* Mutant: what was moved aside is thrown away without a look.
RetireBlindly(p, s, from, expected, resume) ==
    LET entries == IF from = "path" THEN path ELSE fence
    IN  /\ IF from = "path"
           THEN path' = Link(path, s.level, NoFile) /\ UNCHANGED fence
           ELSE fence' = Link(fence, s.level, NoFile) /\ UNCHANGED path
        /\ Become(p, Resume([s EXCEPT !.resume = resume, !.from = from],
                            entries[s.level] # NoFile))
        /\ UNCHANGED <<record, crashes>>

\* retireObservedPath: rename the entry aside and look at what was moved.
Retire(p, s, from, expected, resume) ==
    LET entries == IF from = "path" THEN path ELSE fence
        file == entries[s.level]
        at == [s EXCEPT !.resume = resume, !.from = from]
    IN  /\ IF from = "path"
           THEN path' = Link(path, s.level, NoFile) /\ UNCHANGED fence
           ELSE fence' = Link(fence, s.level, NoFile) /\ UNCHANGED path
        /\ \/ file = NoFile /\ Become(p, Resume(at, FALSE))
           \/ file = expected /\ file # NoFile /\ Become(p, Resume(at, TRUE))
           \/ /\ file \notin {NoFile, expected}
              /\ Become(p, [at EXCEPT !.pc = "restore", !.moved = file])
        /\ UNCHANGED <<record, crashes>>

\* It was another file: link it back, unless the name is taken by now.
Restore(p) ==
    /\ At(p, "restore")
    /\ LET s == proc[p]
           entries == IF s.from = "path" THEN path ELSE fence
       IN  IF entries[s.level] # NoFile
           THEN Become(p, ResumeError(s)) /\ UNCHANGED <<path, fence>>
           ELSE /\ Become(p, [s EXCEPT !.pc = "restored"])
                /\ IF s.from = "path"
                   THEN path' = Link(path, s.level, s.moved) /\ UNCHANGED fence
                   ELSE fence' = Link(fence, s.level, s.moved) /\ UNCHANGED path
    /\ UNCHANGED <<record, crashes>>

Restored(p) ==
    /\ At(p, "restored")
    /\ LET s == proc[p]
           entries == IF s.from = "path" THEN path ELSE fence
       IN  Become(p, IF entries[s.level] = s.moved THEN Resume(s, FALSE)
                                                   ELSE ResumeError(s))
    /\ Keep

-----------------------------------------------------------------------------
(* recoverReclaimFence: a fence is in the way; finish what its owner began. *)

RecoverFence(p) ==
    /\ At(p, "recover")
    /\ Become(p, [proc[p] EXCEPT
                    !.pc = IF fence[proc[p].level] # NoFile THEN "observe-fence"
                           ELSE IF proc[p].reclaiming THEN "snapshot" ELSE "publish"])
    /\ Keep

\* The fence is read again; if it is gone by now it counts as corrupt.
ObserveFence(p) ==
    /\ At(p, "observe-fence")
    /\ LET s == [proc[p] EXCEPT !.snap = fence[proc[p].level]]
       IN  Become(p, IF s.snap = NoFile THEN Throw(s)
                     ELSE [s EXCEPT !.pc = "observe-fenced"])
    /\ Keep

ObserveFenced(p) ==
    /\ At(p, "observe-fenced")
    /\ LET s == proc[p]
           current == path[s.level]
       IN  Become(p, IF current # s.snap THEN [s EXCEPT !.pc = "retire-fence"]
                     ELSE IF Stale(s.level, current) THEN [s EXCEPT !.pc = "confirm-fence"]
                     ELSE Again(s))
    /\ Keep

RetireFence(p) ==
    /\ At(p, "retire-fence")
    /\ Retire(p, proc[p], "fence", proc[p].snap, "recover-fence")

ConfirmFence(p) ==
    /\ At(p, "confirm-fence")
    /\ Become(p, IF fence[proc[p].level] = proc[p].snap
                 THEN [proc[p] EXCEPT !.pc = "confirm-lock"]
                 ELSE Again(proc[p]))
    /\ Keep

ConfirmLock(p) ==
    /\ At(p, "confirm-lock")
    /\ LET s == proc[p]
       IN  Become(p, IF path[s.level] = s.snap /\ Stale(s.level, s.snap)
                     THEN [s EXCEPT !.pc = "retire-lock"]
                     ELSE Again(s))
    /\ Keep

RetireLock(p) ==
    /\ At(p, "retire-lock")
    /\ Retire(p, proc[p], "path", proc[p].snap, "recover-lock")

RetireRecovered(p) ==
    /\ At(p, "retire-recovered")
    /\ Retire(p, proc[p], "fence", proc[p].snap, "recovered")

-----------------------------------------------------------------------------
(* The acquisition loop at each level.                                     *)

\* The caller has read the record without a lock and wants to replace it.
Start(p) ==
    /\ At(p, "unstarted")
    /\ ~PidAlive(PidOf[p])
    /\ Become(p, [proc[p] EXCEPT !.pc = "recover", !.expected = record.version])
    /\ Keep

Publish(p) ==
    /\ At(p, "publish")
    /\ LET s == proc[p]
           file == [by |-> p, level |-> s.level, n |-> s.files[s.level] + 1]
       IN  IF path[s.level] # NoFile
           THEN Become(p, [s EXCEPT !.pc = "observe"]) /\ UNCHANGED path
           ELSE /\ s.files[s.level] < MaxFiles
                /\ path' = Link(path, s.level, file)
                /\ Become(p, [s EXCEPT !.pc = "published",
                                       !.files[s.level] = file.n])
    /\ UNCHANGED <<fence, record, crashes>>

\* The lock is taken when the name can be read back.
Published(p) ==
    /\ At(p, "published")
    /\ LET s == proc[p]
           seen == path[s.level]
           taken == IF s.level = "lock"
                    THEN seen # NoFile /\ PidOf[seen.by] = PidOf[p]
                    ELSE seen # NoFile
           held == [s EXCEPT !.got[s.level] = seen]
       IN  Become(p, IF ~taken THEN [s EXCEPT !.pc = "observe"]
                     ELSE IF s.level = "lock"
                          THEN [held EXCEPT !.pc = "recover", !.level = "owner"]
                          ELSE [held EXCEPT !.pc = "read"])
    /\ Keep

Observe(p) ==
    /\ At(p, "observe")
    /\ LET s == [proc[p] EXCEPT !.obs = path[proc[p].level]]
       IN  Become(p, IF s.obs # NoFile /\ Stale(s.level, s.obs)
                     THEN [s EXCEPT !.pc = "recover", !.reclaiming = TRUE]
                     ELSE Again(s))
    /\ Keep

\* After 500 attempts the acquisition fails.
TimeOut(p) ==
    /\ At(p, "recover") /\ ~proc[p].reclaiming
    /\ Become(p, Throw(proc[p]))
    /\ Keep

-----------------------------------------------------------------------------
(* Retiring a lock under a fence: a stale one, or one's own.               *)

Target(s) == IF s.releasing THEN s.got[s.level] ELSE s.obs
GiveUp(s) == IF s.releasing THEN AfterRelease(s) ELSE Again(s)

\* The PID or the owner token in the file is the process's own.
Names(level, file, p) ==
    IF level = "lock" THEN PidOf[file.by] = PidOf[p] ELSE file.by = p

Release(p) ==
    /\ At(p, "release")
    /\ LET s == proc[p]
       IN  Become(p, IF path[s.level] = Target(s) /\ Names(s.level, Target(s), p)
                     THEN [s EXCEPT !.pc = "snapshot"]
                     ELSE AfterRelease(s))
    /\ Keep

\* snapshotFence: link the lock a second time; one process at a time can.
Snapshot(p) ==
    /\ At(p, "snapshot")
    /\ LET s == proc[p]
       IN  IF fence[s.level] # NoFile \/ path[s.level] = NoFile
           THEN Become(p, GiveUp(s)) /\ UNCHANGED fence
           ELSE /\ fence' = Link(fence, s.level, path[s.level])
                /\ Become(p, [s EXCEPT !.pc = "check-fence"])
    /\ UNCHANGED <<path, record, crashes>>

CheckFence(p) ==
    /\ At(p, "check-fence")
    /\ LET s == [proc[p] EXCEPT !.snap = fence[proc[p].level]]
       IN  Become(p, IF s.snap = Target(s)
                     THEN [s EXCEPT !.pc = IF s.releasing THEN "reclaim" ELSE "recheck"]
                     ELSE IF s.snap = NoFile THEN GiveUp(s)
                     ELSE [s EXCEPT !.pc = "drop-fence"])
    /\ Keep

\* Under the fence the lock must still be the stale one that was observed.
Recheck(p) ==
    /\ At(p, "recheck")
    /\ LET s == proc[p]
       IN  Become(p, IF path[s.level] = s.obs /\ Stale(s.level, s.obs)
                     THEN [s EXCEPT !.pc = "reclaim"]
                     ELSE [s EXCEPT !.pc = "drop-fence"])
    /\ Keep

Reclaim(p) ==
    /\ At(p, "reclaim")
    /\ Retire(p, proc[p], "path", Target(proc[p]), "reclaimed")

DropFence(p) ==
    /\ At(p, "drop-fence")
    /\ Retire(p, proc[p], "fence", proc[p].snap, "fence-dropped")

-----------------------------------------------------------------------------
(* record-cas, under both locks.                                           *)

Holding(p) == proc[p].pc \in {"read", "write"}

\* Mutant: the version is not compared.
ReadRecordUnchecked(p) ==
    /\ At(p, "read")
    /\ Become(p, [proc[p] EXCEPT !.pc = "write"])
    /\ Keep

ReadRecord(p) ==
    /\ At(p, "read")
    /\ Become(p, IF record.version = proc[p].expected
                 THEN [proc[p] EXCEPT !.pc = "write"]
                 ELSE ReleaseFrom(proc[p]))
    /\ Keep

WriteRecord(p) ==
    /\ At(p, "write")
    /\ record' = [version |-> proc[p].expected + 1, by |-> p]
    /\ Become(p, ReleaseFrom(proc[p]))
    /\ UNCHANGED <<path, fence, crashes>>

\* What remains of a process is what its files say.
Gone(s) == [Unstarted EXCEPT !.pc = "exited", !.got = s.got]

Exit(p) ==
    /\ proc[p].pc \in {"done", "failed"}
    /\ Become(p, Gone(proc[p]))
    /\ Keep

Crash(p) ==
    /\ Alive(p)
    /\ crashes < MaxCrashes
    /\ crashes' = crashes + 1
    /\ Become(p, Gone(proc[p]))
    /\ UNCHANGED <<path, fence, record>>

Step(p) ==
    \/ Start(p)
    \/ RecoverFence(p) \/ ObserveFence(p) \/ ObserveFenced(p) \/ RetireFence(p)
    \/ ConfirmFence(p) \/ ConfirmLock(p) \/ RetireLock(p) \/ RetireRecovered(p)
    \/ Restore(p) \/ Restored(p)
    \/ Publish(p) \/ Published(p) \/ Observe(p)
    \/ Release(p) \/ Snapshot(p) \/ CheckFence(p) \/ Recheck(p)
    \/ Reclaim(p) \/ DropFence(p)
    \/ ReadRecord(p) \/ WriteRecord(p)
    \/ Exit(p)

Next == \E p \in Procs : Step(p) \/ TimeOut(p) \/ Crash(p)

Spec == Init /\ [][Next]_vars

\* A process that runs takes its next step; no timeout is counted on.
FairSpec == Spec /\ \A p \in Procs : WF_vars(Step(p))

-----------------------------------------------------------------------------
(* Properties.                                                             *)

Labels ==
    {"unstarted", "recover", "observe-fence", "observe-fenced", "retire-fence",
     "confirm-fence", "confirm-lock", "retire-lock", "retire-recovered",
     "restore", "restored", "publish", "published", "observe", "release",
     "snapshot", "check-fence", "recheck", "reclaim", "drop-fence", "read",
     "write", "done", "failed", "exited"}

\* What a process can be.
Processes ==
    [pc : Labels, level : Levels, releasing : BOOLEAN, failing : BOOLEAN,
     obs : Entries, snap : Entries, reclaiming : BOOLEAN, retired : BOOLEAN,
     moved : Entries, from : {"path", "fence"},
     resume : {"none", "recover-fence", "recover-lock", "recovered",
               "reclaimed", "fence-dropped"},
     got : [Levels -> Entries], files : [Levels -> 0 .. MaxFiles],
     expected : 0 .. Cardinality(Procs)]

TypeOK ==
    /\ path \in [Levels -> Entries]
    /\ fence \in [Levels -> Entries]
    /\ record \in [version : 0 .. Cardinality(Procs), by : Procs \union {Dead}]
    /\ crashes \in 0 .. MaxCrashes
    /\ proc \in [Procs -> Processes]

\* The process that published a file is dead, and stays so.
DeadOwner(file) ==
    file.by = Dead \/ (file.by \in Procs /\ proc[file.by].pc = "exited")

\* A file that is anywhere was published by a process that has started.
Known(file) ==
    file = NoFile \/ DeadOwner(file) \/ (file.by \in Procs /\ Alive(file.by))

\* The lock a process that releases has set out to retire names it, or a dead
\* process that had its PID.
OwnTarget(p, s) ==
    LET file == s.got[s.level]
    IN  file # NoFile /\ (file.by = p \/ DeadOwner(file))

\* Where a process that releases can be.
Releasing == {"release", "snapshot", "check-fence", "reclaim", "drop-fence",
              "restore", "restored", "done", "failed"}

\* What a process p in state s goes by is true: the files it remembers, the
\* death of the owner of every lock it is about to retire, its own legacy lock.
Sound(p, s) ==
    /\ Known(s.obs) /\ Known(s.snap) /\ Known(s.moved)
    /\ \A level \in Levels : Known(s.got[level])
    /\ s.got["lock"] # NoFile =>
          /\ s.got["lock"].by = p \/ DeadOwner(s.got["lock"])
          /\ PidOf[s.got["lock"].by] = PidOf[p]
    /\ s.level = "owner" \/ s.releasing => s.got["lock"] # NoFile
    /\ s.reclaiming => s.obs # NoFile /\ DeadOwner(s.obs)
    /\ s.pc \in {"snapshot", "check-fence", "recheck", "reclaim"} =>
          s.releasing \/ s.reclaiming
    /\ s.releasing /\ s.pc \in {"snapshot", "check-fence", "reclaim"} => OwnTarget(p, s)
    /\ s.pc \in {"observe-fenced", "confirm-fence", "confirm-lock", "retire-lock"} =>
          s.snap # NoFile
    /\ s.pc = "retire-lock" => DeadOwner(s.snap)
    /\ s.releasing => s.pc \in Releasing
    /\ s.pc = "release" => s.releasing /\ s.got[s.level] # NoFile
    /\ s.pc \in {"read", "write"} => s.level = "owner"
    /\ s.pc = "unstarted" => s.level = "lock"
    /\ s.pc \in {"restore", "restored"} =>
          /\ s.moved # NoFile
          /\ s.resume # "none"
          /\ s.releasing => s.resume \in {"reclaimed", "fence-dropped"}

\* Two live processes never have one PID, and every lock retired for good is
\* one's own or a dead process's, whatever else goes wrong.
LockInv ==
    /\ \A level \in Levels : Known(path[level]) /\ Known(fence[level])
    /\ \A p, q \in Procs : Alive(p) /\ Alive(q) /\ PidOf[p] = PidOf[q] => p = q
    /\ \A p \in Procs : Sound(p, proc[p])

\* A process in state s relies on the lock of a level being its own.
Relies(s, level) ==
    IF level = "lock"
    THEN \/ s.pc = "published" /\ s.level = "lock"
         \/ s.pc \notin {"unstarted", "exited"} /\ s.level = "owner" /\ ~s.releasing
    ELSE \/ s.pc = "published" /\ s.level = "owner"
         \/ s.pc \in {"read", "write"}

\* The lock of a process that relies on it has been moved aside by mistake.
Displaced(level) ==
    \E p \in Procs :
        /\ At(p, "restore") /\ proc[p].from = "path" /\ proc[p].level = level
        /\ proc[p].moved.by \in Procs
        /\ Relies(proc[proc[p].moved.by], level)

\* At most one live process is between reading and replacing the record,
\* whatever locks and fences were left behind, are reclaimed, are moved aside
\* by mistake, or lose their owner on the way.
MutualExclusion == \A p, q \in Procs : Holding(p) /\ Holding(q) => p = q

\* The lock of a live process only disappears when that process releases it, or is
\* moved aside by a process that looks at it next (retireObservedPath).
LockKept ==
    [][\A level \in Levels :
          path[level] # NoFile /\ path'[level] # path[level] =>
             \/ DeadOwner(path[level])
             \/ proc[path[level].by].releasing
             \/ \E p \in Procs : At(p, "restore")' /\ proc'[p].moved = path[level]]_vars

\* A process enters with the two locks it published itself, although it takes
\* a lock by reading back whatever is at its name.
HoldsOwnLocks ==
    \A p \in Procs, level \in Levels : Holding(p) => proc[p].got[level].by = p

\* No compare-and-swap overwrites one it has not seen.
NoLostUpdate == [][record'.version = record.version + 1]_record

Settled == \A p \in Procs : proc[p].pc = "exited"

\* A process whose lock was moved aside just when it read it back waits for
\* its own file until its attempts run out.
WaitsForItself ==
    \E p \in Procs, level \in Levels :
        /\ Alive(p)
        /\ path[level] # NoFile
        /\ path[level].by = p
        /\ proc[p].got[level] = NoFile
        /\ proc[p].pc # "published"

\* Whatever an earlier process left behind, and wherever a process stops,
\* every process gets through without waiting for its attempts to run out.
EventuallySettled == <>(Settled \/ WaitsForItself)

=============================================================================
