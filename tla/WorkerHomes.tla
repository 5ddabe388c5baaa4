------------------------------ MODULE WorkerHomes ------------------------------
(***************************************************************************)
(* The private home directories that commands of environment-factory run   *)
(* in.  worker-home-resource.js keeps them in a ledger: a home is reserved *)
(* before it is created, leased once it exists, and released when it is    *)
(* proved gone.  A home is removed by runtime/common.js, which writes how  *)
(* far it has come, with the broker object-bound-cleanup-broker.py, which  *)
(* keeps its own proof beside the directory.  Either may stop anywhere.    *)
(***************************************************************************)
EXTENDS Naturals, FiniteSets

CONSTANTS
    Slots,       \* an effect and a purpose: one command at a time
    MaxGen,      \* bound: homes that a slot has in turn
    MaxEntries,  \* slots that the ledger has room for
    MaxFaults    \* bound: stops of a process or of the broker

\* What the constants must be, for a configuration.
HomesConstants ==
    {MaxGen, MaxEntries, MaxFaults} \subseteq Nat \ {0} /\ "cleaner" \notin Slots

Gens == 1 .. MaxGen
Cleaner == "cleaner"
Actors == Slots \union {Cleaner}

VARIABLES
    entry,    \* entry[s]: the slot in the ledger
    home,     \* home[s][g]: the directory
    capture,  \* capture[s][g]: the state file of its removal
    proof,    \* proof[s][g]: the quarantine of the broker
    cmd,      \* cmd[s]: the command of the slot
    job,      \* job[a]: the removal a is at
    cleaner,  \* the cleanup of the whole ledger
    faults

disk == <<home, capture, proof>>
vars == <<entry, disk, cmd, job, cleaner, faults>>

NoJob == [stage |-> "none", slot |-> "none", gen |-> 0]
Idle == [pc |-> "idle", gen |-> 0, gone |-> FALSE]
Each(v) == [s \in Slots |-> [g \in Gens |-> v]]

\* The broker counts as one of the parties: "deleting" is one call of it.
Init ==
    /\ entry = [s \in Slots |-> [state |-> "none", gen |-> 0, lease |-> FALSE]]
    /\ home = Each("absent") /\ capture = Each("none") /\ proof = Each("none")
    /\ cmd = [s \in Slots |-> Idle]
    /\ job = [a \in Actors |-> NoJob]
    /\ cleaner = [pc |-> "idle", todo |-> {}, kept |-> {}]
    /\ faults = 0

Entries == {s \in Slots : entry[s].state # "none"}
Unlocked == cleaner.pc = "idle"
-----------------------------------------------------------------------------
(* A command and its slot.                                                 *)

SetEntry(s, e) == entry' = [entry EXCEPT ![s] = e]
SetCmd(s, pc) == cmd' = [cmd EXCEPT ![s].pc = pc]

\* A slot that is new or released gets its next home; one that has a lease
\* keeps it; one that has neither lease nor proof of release is refused.
Reserve(s) ==
    /\ cmd[s].pc = "idle" /\ Unlocked
    /\ \/ /\ \/ entry[s].state = "none" /\ Cardinality(Entries) < MaxEntries
             \/ entry[s].state = "released"
          /\ entry[s].gen < MaxGen
          /\ SetEntry(s, [state |-> "reserved", gen |-> entry[s].gen + 1, lease |-> FALSE])
          /\ cmd' = [cmd EXCEPT ![s] = [Idle EXCEPT !.pc = "create", !.gen = entry[s].gen + 1]]
       \/ /\ entry[s].state \in {"allocated", "retained"} /\ entry[s].lease
          /\ home[s][entry[s].gen] = "present"
          /\ cmd' = [cmd EXCEPT ![s] = [Idle EXCEPT !.pc = "create", !.gen = entry[s].gen]]
          /\ UNCHANGED entry
    /\ UNCHANGED <<disk, job, cleaner, faults>>

\* The broker publishes a home complete, or finds it as it left it.
Create(s) ==
    /\ cmd[s].pc = "create"
    /\ home' = [home EXCEPT ![s][cmd[s].gen] = "present"]
    /\ SetCmd(s, "lease")
    /\ UNCHANGED <<entry, capture, proof, job, cleaner, faults>>

\* The lease is written before it is verified.
Lease(s) ==
    /\ cmd[s].pc = "lease" /\ Unlocked
    /\ SetEntry(s, [entry[s] EXCEPT !.state = "allocated", !.lease = TRUE])
    /\ SetCmd(s, IF home[s][cmd[s].gen] = "present" THEN "use" ELSE "idle")
    /\ UNCHANGED <<disk, job, cleaner, faults>>

\* The command is over: its home is removed, outside the lock of the ledger.
\* A home that is there must be the one leased, or nothing is removed.
StartRemoval(s) ==
    /\ cmd[s].pc = "use"
    /\ job' = [job EXCEPT ![s] = [stage |-> "host", slot |-> s, gen |-> cmd[s].gen]]
    /\ SetCmd(s, "removing")
    /\ UNCHANGED <<entry, disk, cleaner, faults>>

RecordRelease(s) ==
    /\ cmd[s].pc = "removed" /\ Unlocked
    /\ SetEntry(s, [entry[s] EXCEPT
                      !.state = IF cmd[s].gone THEN "released" ELSE "retained"])
    /\ cmd' = [cmd EXCEPT ![s] = Idle]
    /\ UNCHANGED <<disk, job, cleaner, faults>>
-----------------------------------------------------------------------------
(* removeOwnedDirectory, one removal of a home at a time.                  *)

Busy(s, g) == \E a \in Actors : job[a].stage \in {"locked", "deleting"}
                                /\ job[a].slot = s /\ job[a].gen = g
Advance(file, a, v) == [file EXCEPT ![job[a].slot][job[a].gen] = v]
Of(file, a) == file[job[a].slot][job[a].gen]

\* The end of a removal, for who asked for it.
Finish(a, gone) ==
    /\ job' = [job EXCEPT ![a] = NoJob]
    /\ IF a = Cleaner
       THEN /\ cleaner' = [cleaner EXCEPT !.kept = IF gone THEN @ ELSE @ \union {job[a].slot}]
            /\ UNCHANGED cmd
       ELSE /\ cmd' = [cmd EXCEPT ![a].pc = "removed", ![a].gone = gone]
            /\ UNCHANGED cleaner
Going(a) == UNCHANGED <<cmd, cleaner>>
Stage(a, st) == job' = [job EXCEPT ![a].stage = st]

LockCapture(a) ==
    /\ job[a].stage = "host" /\ ~Busy(job[a].slot, job[a].gen)
    /\ Stage(a, "locked") /\ Going(a) /\ UNCHANGED <<entry, disk, faults>>

\* Nothing to remove, and nothing that says it was: not released.
BeginCapture(a) ==
    /\ job[a].stage = "locked" /\ Of(capture, a) = "none"
    /\ \/ /\ Of(home, a) = "present"
          /\ capture' = Advance(capture, a, "pending") /\ UNCHANGED job /\ Going(a)
       \/ /\ Of(home, a) # "present" /\ Finish(a, FALSE) /\ UNCHANGED capture
    /\ UNCHANGED <<entry, home, proof, faults>>

\* The broker is called again for a capture it did not finish.
CallBroker(a) ==
    /\ job[a].stage = "locked" /\ Of(capture, a) = "pending"
    /\ \/ /\ Of(proof, a) \in {"none", "marked", "taken"}
          /\ Stage(a, "deleting") /\ Going(a) /\ UNCHANGED proof
       \/ /\ Of(proof, a) \in {"opened", "retained"} /\ Finish(a, FALSE) /\ UNCHANGED proof
       \/ /\ Of(proof, a) = "emptied" /\ Finish(a, FALSE)
          /\ proof' = Advance(proof, a, "retained")
    /\ UNCHANGED <<entry, home, capture, faults>>

\* capture-delete: a quarantine, its marker, the home moved into it and there
\* deleted, and a marker that it was.
Delete(a) ==
    /\ job[a].stage = "deleting"
    /\ LET next == [none |-> "opened", opened |-> "marked", marked |-> "taken",
                    taken |-> "emptied", emptied |-> "cleaned"]
       IN  proof' = Advance(proof, a, next[Of(proof, a)])
    /\ home' = CASE Of(proof, a) = "marked" -> Advance(home, a, "captured")
                 [] Of(proof, a) = "taken"  -> Advance(home, a, "gone")
                 [] OTHER                   -> home
    /\ Stage(a, IF Of(proof, a) = "emptied" THEN "locked" ELSE "deleting")
    /\ Going(a) /\ UNCHANGED <<entry, capture, faults>>

\* Mutant: the proof is dropped before the host has written that it saw it.
ProceedAtOnce(a) ==
    /\ job[a].stage = "locked" /\ Of(proof, a) \in {"cleaned", "finalized"}
    /\ proof' = Advance(proof, a, "none")
    /\ capture' = Advance(capture, a, "released")
    /\ Going(a) /\ UNCHANGED <<entry, home, job, faults>>

\* The broker does its part, then the host writes that it did.
Proceed(a) ==
    /\ job[a].stage = "locked"
    /\ \/ /\ Of(capture, a) = "pending" /\ Of(proof, a) = "cleaned"
          /\ capture' = Advance(capture, a, "captured-cleaned") /\ UNCHANGED proof
       \/ /\ Of(capture, a) = "captured-cleaned" /\ Of(proof, a) = "cleaned"
          /\ proof' = Advance(proof, a, "finalized") /\ UNCHANGED capture
       \/ /\ Of(capture, a) = "captured-cleaned" /\ Of(proof, a) = "finalized"
          /\ capture' = Advance(capture, a, "finalized") /\ UNCHANGED proof
       \/ /\ Of(capture, a) = "finalized" /\ Of(proof, a) = "finalized"
          /\ proof' = Advance(proof, a, "dropped") /\ UNCHANGED capture
       \/ /\ Of(capture, a) = "finalized" /\ Of(proof, a) = "dropped"
          /\ capture' = Advance(capture, a, "released") /\ UNCHANGED proof
    /\ Going(a) /\ UNCHANGED <<entry, home, job, faults>>

EndRemoval(a) ==
    /\ job[a].stage = "locked" /\ Of(capture, a) = "released"
    /\ Finish(a, Of(home, a) # "present")
    /\ UNCHANGED <<entry, disk, faults>>

\* The broker is killed, or refuses and says so in its quarantine, putting
\* back what it has not begun to delete.
BrokerFails(a) ==
    /\ job[a].stage = "deleting" /\ faults < MaxFaults /\ faults' = faults + 1
    /\ \/ UNCHANGED <<home, proof>>
       \/ /\ Of(proof, a) \in {"marked", "taken"}
          /\ proof' = Advance(proof, a, "retained")
          /\ \/ UNCHANGED home
             \/ Of(proof, a) = "taken" /\ home' = Advance(home, a, "present")
    /\ Finish(a, FALSE) /\ UNCHANGED <<entry, capture>>
-----------------------------------------------------------------------------
(* cleanupWorkerHomeLedger, under the lock of the ledger.                  *)

StartCleanup ==
    /\ Unlocked
    /\ cleaner' = [pc |-> "cleaning", kept |-> {},
                   todo |-> {s \in Entries : entry[s].state # "released"}]
    /\ UNCHANGED <<entry, disk, cmd, job, faults>>

\* Released by its lease, or as a reservation: what is there must be the home
\* that was reserved, and what is not there must have been captured.
CleanSlot(s) ==
    /\ cleaner.pc = "cleaning" /\ s \in cleaner.todo /\ job[Cleaner] = NoJob
    /\ cleaner' = [cleaner EXCEPT !.todo = @ \ {s}]
    /\ job' = [job EXCEPT ![Cleaner] = [stage |-> "host", slot |-> s, gen |-> entry[s].gen]]
    /\ UNCHANGED <<entry, disk, cmd, faults>>

EndCleanup ==
    /\ cleaner.pc = "cleaning" /\ cleaner.todo = {} /\ job[Cleaner] = NoJob
    /\ entry' = [s \in Slots |->
                   IF entry[s].state \in {"none", "released"} THEN entry[s]
                   ELSE [entry[s] EXCEPT !.state = IF s \in cleaner.kept THEN "retained"
                                                   ELSE "released"]]
    /\ cleaner' = [cleaner EXCEPT !.pc = "idle"]
    /\ UNCHANGED <<disk, cmd, job, faults>>

\* A process stops.  The system takes its locks over; its broker stops too.
Crash(a) ==
    /\ faults < MaxFaults /\ faults' = faults + 1
    /\ IF a = Cleaner
       THEN /\ cleaner.pc = "cleaning"
            /\ cleaner' = [cleaner EXCEPT !.pc = "idle", !.todo = {}, !.kept = {}]
            /\ UNCHANGED cmd
       ELSE /\ cmd[a].pc # "idle" /\ cmd' = [cmd EXCEPT ![a] = Idle] /\ UNCHANGED cleaner
    /\ job' = [job EXCEPT ![a] = NoJob]
    /\ UNCHANGED <<entry, disk>>
-----------------------------------------------------------------------------
Remove(a) ==
    \/ LockCapture(a) \/ BeginCapture(a) \/ CallBroker(a) \/ Delete(a)
    \/ Proceed(a) \/ EndRemoval(a)
Command(s) ==
    \/ Create(s) \/ Lease(s) \/ StartRemoval(s) \/ RecordRelease(s)
Cleanup == StartCleanup \/ EndCleanup \/ \E s \in Slots : CleanSlot(s)

Next ==
    \/ \E s \in Slots : Reserve(s) \/ Command(s)
    \/ \E a \in Actors : Remove(a) \/ BrokerFails(a) \/ Crash(a)
    \/ Cleanup

Spec == Init /\ [][Next]_vars
\* Whoever asks for the cleanup asks until it is done.
FairSpec ==
    /\ Spec /\ WF_vars(Cleanup)
    /\ \A a \in Actors : WF_vars(Remove(a))
    /\ \A s \in Slots : WF_vars(Command(s))
-----------------------------------------------------------------------------
EntryStates == [state : {"none", "reserved", "allocated", "retained", "released"},
                gen : 0 .. MaxGen, lease : BOOLEAN]
Homes == {"absent", "present", "captured", "gone"}
Captures == {"none", "pending", "captured-cleaned", "finalized", "released"}
Proofs == {"none", "opened", "marked", "taken", "emptied", "cleaned", "finalized", "dropped",
           "retained"}
Commands == [pc : {"idle", "create", "lease", "use", "removing", "removed"},
             gen : 0 .. MaxGen, gone : BOOLEAN]
Jobs == [stage : {"none", "host", "locked", "deleting"}, slot : Slots \union {"none"},
         gen : 0 .. MaxGen]

\* Every variable keeps its range (the schema of worker-home-resource.js).
TypeOK ==
    /\ entry \in [Slots -> EntryStates]
    /\ home \in [Slots -> [Gens -> Homes]]
    /\ capture \in [Slots -> [Gens -> Captures]]
    /\ proof \in [Slots -> [Gens -> Proofs]]
    /\ cmd \in [Slots -> Commands]
    /\ job \in [Actors -> Jobs]
    /\ cleaner \in [pc : {"idle", "cleaning"}, todo : SUBSET Slots, kept : SUBSET Slots]
    /\ faults \in 0 .. MaxFaults

\* A command that was delivered again after its home was removed makes a home
\* under the identity that was removed; its removal will be skipped.
Recreated(s, g) == home[s][g] = "present" /\ capture[s][g] = "released"

\* A home on disk, whole or half removed, is the one of its slot in the ledger,
\* and the slot does not say that it was released: no crash leaves a home that
\* cleanup does not know (allocateDurableWorkerEnvironment reserves first).
HomesInLedger ==
    \A s \in Slots, g \in Gens :
        home[s][g] \in {"present", "captured"} =>
            \/ entry[s].gen = g /\ entry[s].state # "released"
            \/ Recreated(s, g)

\* A slot says released only when the removal of its home came to its end, with
\* the broker's proof (recordWorkerEnvironmentRelease, cleanupWorkerHomeLedger).
ReleasedWithProof ==
    \A s \in Slots : entry[s].state = "released" =>
        capture[s][entry[s].gen] = "released"

\* The host and the broker never lose the proof between them: the broker drops
\* its own only when the host has written that it saw it, and the host calls a
\* home released only when the broker has nothing left (removeOwnedDirectory).
ProofFirst ==
    \A s \in Slots, g \in Gens :
        /\ proof[s][g] \in {"finalized", "dropped"} =>
              capture[s][g] \in {"captured-cleaned", "finalized", "released"}
        /\ capture[s][g] = "released" => proof[s][g] = "dropped"

\* No home is forgotten, called released too early, or left without its proof.
HomesAccounted == HomesInLedger /\ ReleasedWithProof /\ ProofFirst

-----------------------------------------------------------------------------
(* The inductive invariant behind it.                                      *)

\* The state file of a removal and the quarantine of the broker go together, and
\* what lies in the quarantine is there until its deletion or the broker's end.
Matches(s, g) ==
    /\ \/ capture[s][g] = "none" /\ proof[s][g] = "none"
       \/ capture[s][g] = "pending" /\ proof[s][g] \notin {"finalized", "dropped"}
       \/ capture[s][g] = "captured-cleaned" /\ proof[s][g] \in {"cleaned", "finalized"}
       \/ capture[s][g] = "finalized" /\ proof[s][g] \in {"finalized", "dropped"}
       \/ capture[s][g] = "released" /\ proof[s][g] = "dropped"
    /\ home[s][g] = "captured" => proof[s][g] \in {"taken", "retained"}
FilesMatch == \A s \in Slots, g \in Gens : Matches(s, g)

\* The homes of a slot before its last one were released, those after are not made.
InTurn ==
    \A s \in Slots :
        /\ entry[s].state = "none" <=> entry[s].gen = 0
        /\ \A g \in Gens : /\ g < entry[s].gen => capture[s][g] = "released"
                           /\ g > entry[s].gen => /\ home[s][g] = "absent"
                                                  /\ capture[s][g] = "none"

\* A command has the last home of its slot, and removes it by itself.
CommandsKnown ==
    \A s \in Slots :
        /\ cmd[s].pc # "idle" => cmd[s].gen = entry[s].gen /\ cmd[s].gen \in Gens
        /\ cmd[s].pc = "removed" /\ cmd[s].gone => capture[s][cmd[s].gen] = "released"
        /\ job[s].stage # "none" =>
              cmd[s].pc = "removing" /\ job[s].slot = s /\ job[s].gen = cmd[s].gen

\* The cleanup removes the last home of each slot; what it does not keep is gone.
CleanupKnown ==
    /\ job[Cleaner].stage # "none" =>
          /\ cleaner.pc = "cleaning" /\ job[Cleaner].slot \in Slots
          /\ job[Cleaner].gen = entry[job[Cleaner].slot].gen /\ job[Cleaner].gen \in Gens
    /\ cleaner.pc = "cleaning" =>
          /\ cleaner.todo \subseteq Entries
          /\ \A s \in Entries \ (cleaner.todo \union cleaner.kept) :
                \/ job[Cleaner].stage # "none" /\ job[Cleaner].slot = s
                \/ capture[s][entry[s].gen] = "released"

\* A home is removed by one party at a time; the broker is called for a capture
\* that it has not finished.
Removing(a) == job[a].stage \in {"locked", "deleting"}
OneRemoval ==
    /\ \A a, b \in Actors :
          Removing(a) /\ Removing(b) /\ job[a].slot = job[b].slot /\ job[a].gen = job[b].gen
              => a = b
    /\ \A a \in Actors :
          job[a].stage = "deleting" =>
              /\ Of(capture, a) = "pending"
              /\ Of(proof, a) \in {"none", "opened", "marked", "taken", "emptied"}

HomesInv ==
    TypeOK /\ FilesMatch /\ InTurn /\ CommandsKnown /\ CleanupKnown /\ OneRemoval
    /\ ReleasedWithProof
-----------------------------------------------------------------------------
\* What keeps a slot from being released: its home was never made, or the broker
\* stopped where it does not go on.
NeverStarted(s, g) == home[s][g] = "absent" /\ capture[s][g] = "none"
Cut(s, g) == proof[s][g] \in {"opened", "emptied", "retained"}

\* As long as cleanup is repeated, a reserved slot is released, wherever a
\* process or the broker stopped (cleanupWorkerHomeLedger).
EventuallyReleased ==
    \A s \in Slots, g \in Gens :
        entry[s].gen = g ~>
            \/ entry[s].state = "released" \/ entry[s].gen # g
            \/ NeverStarted(s, g) \/ Cut(s, g) \/ Recreated(s, g)
=============================================================================
